---- MODULE Spec2Model ----
(***************************************************************************)
(* Model of the cashlink generator's mempool-aware TransactionBroadcaster  *)
(* (src/TransactionBroadcaster.js) together with the node it talks to.     *)
(*                                                                         *)
(* Every `await` of the source is a point where other callbacks may run,   *)
(* so each asynchronous function is cut into one action per stretch of     *)
(* synchronous code between two awaits.  A transaction is identified with  *)
(* its hash.  The node is an environment: it accepts or fails a            *)
(* sendTransaction call, answers mempoolContent with the mempool it holds  *)
(* at the moment it handles the request, and mines blocks.                 *)
(*                                                                         *)
(* The synchronous parts of the tool (the fee rule of the mempool gate,    *)
(* the Cashlink codec, the CSV file handler, createCashlinks) are pure     *)
(* functions; each has a specification of its own that draws the inputs    *)
(* in its initial states and applies the function step by step.            *)
(***************************************************************************)
EXTENDS Integers, Sequences, FiniteSets, TLC

\* ------------------------------------------------------------------ bounds
\* Transactions submitted to the broadcaster during a run: 1..NumTx.
NumTx == 2
\* Transactions of a previous run that may still be in the node's mempool
\* when the broadcaster is constructed: NumTx+1 .. NumTx+NumOld.
NumOld == 1
\* The chain height up to which the node mines blocks.
MaxHeight == 1
\* Failed sendTransaction calls over a whole run.
MaxFail == 2
\* Scaled-down stand-ins of the three limits (50, 10 and 500 in @nimiq/core).
MAX_PARALLEL_BROADCASTS == 1
FREE_TRANSACTIONS_PER_SENDER_MAX == 1
TRANSACTIONS_PER_SENDER_MAX == 3

Tx == 1..NumTx
OldTx == (NumTx + 1)..(NumTx + NumOld)
AllTx == Tx \cup OldTx
Senders == {"a", "b"}

\* The sender of a transaction: the first two submitted transactions and those
\* of the previous run are sent from address "a", every further one from "b".
SenderOf(t) == IF t \in 3..NumTx THEN "b" ELSE "a"

VARIABLES
    feeTier,        \* transaction -> "free" | "paid" (feePerByte against the relay minimum)
    initialized,    \* _initializedPromise: "pending" | "resolved" | "rejected"
    broadcastSlotWaitList,          \* _broadcastSlotWaitList
    mempoolSlotWaitListPerSender,   \* _mempoolSlotWaitListPerSender (a Map: its domain are its keys)
    mempoolTransactionsPerSender,   \* _mempoolTransactionsPerSender (a Map of Sets)
    senderPerMempoolTransaction,    \* _senderPerMempoolTransaction (a Map)
    transactionMiningPromise,       \* _transactionMiningPromise: FALSE is null, TRUE a pending promise
    lastBlockHeight,                \* _lastBlockHeight
    broadcastPromises,              \* _broadcastPromises, each promise named by its transaction
    call,           \* broadcastTransaction(t): "idle" | "waiting" | "returned" | "rejected"
    bs,             \* _awaitFreeBroadcastSlot(t): "none" | "init" | "race" | "done" | "rejected"
    raceSet,        \* the promises handed to Promise.race by a waiting _awaitFreeBroadcastSlot
    ms,             \* _awaitFreeMempoolSlot(t): "none" | "init" | "enter" | "mining" | "woken" | "done" | "rejected"
    snd,            \* sendTransactionUntilSuccess(t): "none" | "sending" | "accepted" | "retry" | "done"
    attempts,       \* sendTransaction calls made for t
    failures,       \* failed sendTransaction calls of t
    pollLoops,      \* running checkForMinedTransactions loops: records [pc, snap]
    pending,        \* awaitPendingBroadcasts(): [pc, set]
    bsQueued,       \* history: the transactions holding a broadcast wait list reservation, in the order they queued up
    msQueued,       \* history: the transactions holding a mempool wait list reservation, in the order they queued up
    nodeHeight,     \* the node's chain height
    nodeMempool,    \* the node's mempool
    slotCheck,      \* one run of the fee rule of _awaitFreeMempoolSlot: [pc, fee, serializedSize, ...]
    codec,          \* one Cashlink and what was rendered and parsed from it: [pc, cashlink, str, parsed, ...]
    csvFile,        \* one export and import of a batch through the file handler: [pc, cashlinks, lines, imported]
    creation,       \* runs of createCashlinks: [pc, batches, ...]
    statistics,     \* one run of createStatistics: [pc, histories, pending, counts, ...]
    handler,        \* one run of fundCashlinks or claimCashlinks: [pc, balances, sent, ...]
    workflow        \* one run of the main workflow: [pc, exported, funded, ...]

vars == << feeTier, initialized, broadcastSlotWaitList, mempoolSlotWaitListPerSender,
           mempoolTransactionsPerSender, senderPerMempoolTransaction,
           transactionMiningPromise, lastBlockHeight, broadcastPromises,
           call, bs, raceSet, ms, snd, attempts, failures, pollLoops, pending,
           bsQueued, msQueued, nodeHeight, nodeMempool,
           slotCheck, codec, csvFile, creation, statistics, handler, workflow >>

\* The variables of the broadcaster and of the node
broadcasterVars == << feeTier, initialized, broadcastSlotWaitList, mempoolSlotWaitListPerSender,
                      mempoolTransactionsPerSender, senderPerMempoolTransaction,
                      transactionMiningPromise, lastBlockHeight, broadcastPromises,
                      call, bs, raceSet, ms, snd, attempts, failures, pollLoops, pending,
                      bsQueued, msQueued, nodeHeight, nodeMempool >>

\* The variables of the tool's synchronous parts
toolVars == << slotCheck, codec, csvFile, creation, statistics, handler, workflow >>

\* All variables but the one of a single synchronous part
exceptSlotCheck == << broadcasterVars, codec, csvFile, creation, statistics, handler, workflow >>
exceptCodec == << broadcasterVars, slotCheck, csvFile, creation, statistics, handler, workflow >>
exceptCsvFile == << broadcasterVars, slotCheck, codec, creation, statistics, handler, workflow >>
exceptCreation == << broadcasterVars, slotCheck, codec, csvFile, statistics, handler, workflow >>
exceptStatistics == << broadcasterVars, slotCheck, codec, csvFile, creation, handler, workflow >>
exceptHandler == << broadcasterVars, slotCheck, codec, csvFile, creation, statistics, workflow >>
exceptWorkflow == << broadcasterVars, slotCheck, codec, csvFile, creation, statistics, handler >>

\* ----------------------------------------------------------------- helpers
\* Array.prototype.indexOf: the 0-based position of the first occurrence, -1 if absent.
IndexOf(list, t) ==
    IF \E i \in 1..Len(list) : list[i] = t
    THEN (CHOOSE i \in 1..Len(list) : list[i] = t /\ \A j \in 1..(i - 1) : list[j] # t) - 1
    ELSE -1

\* Array.prototype.splice(start, 1): removes one element at the 0-based start;
\* a negative start counts from the end of the array.
Splice1(list, start) ==
    LET s == IF start < 0 THEN (IF Len(list) + start < 0 THEN 0 ELSE Len(list) + start) ELSE start
    IN  IF s >= Len(list) THEN list
        ELSE SubSeq(list, 1, s) \o SubSeq(list, s + 2, Len(list))

\* Array.prototype.unshift in the place of push: queues up at the front.
Unshift(list, t) == << t >> \o list

\* Array.prototype.push
Push(list, t) == Append(list, t)

\* Map.prototype.delete
MapDelete(map, k) == [x \in DOMAIN map \ {k} |-> map[x]]

\* Map.prototype.set
MapSet(map, k, v) == [x \in DOMAIN map \cup {k} |-> IF x = k THEN v ELSE map[x]]

\* _addMempoolTransaction on the pair of maps << perSender, senderPer >>
AddMempoolTransaction(maps, hash, sender) ==
    LET perSender == maps[1]
        senderMempoolTransactions == IF sender \in DOMAIN perSender THEN perSender[sender] ELSE {}
    IN  << MapSet(perSender, sender, senderMempoolTransactions \cup {hash}),
           MapSet(maps[2], hash, sender) >>

\* A _removeMempoolTransaction that keeps a sender's set that became empty.
RemoveMempoolTransactionKeepsEmpty(maps, hash, sender) ==
    << MapSet(maps[1], sender, maps[1][sender] \ {hash}), MapDelete(maps[2], hash) >>

\* _removeMempoolTransaction on the pair of maps
RemoveMempoolTransaction(maps, hash, sender) ==
    LET perSender == maps[1]
    IN  << IF Cardinality(perSender[sender]) > 1
           THEN MapSet(perSender, sender, perSender[sender] \ {hash})
           ELSE MapDelete(perSender, sender),
           MapDelete(maps[2], hash) >>

\* _getMempoolTransactionCount
GetMempoolTransactionCount(perSender, sender) ==
    IF sender \in DOMAIN perSender THEN Cardinality(perSender[sender]) ELSE 0

\* const isFree = transaction.feePerByte < Mempool.TRANSACTION_RELAY_FEE_MIN
IsFree(t) == feeTier[t] = "free"

\* const maxMempoolSlots = isFree ? FREE_TRANSACTIONS_PER_SENDER_MAX : TRANSACTIONS_PER_SENDER_MAX
MaxMempoolSlots(t) ==
    IF IsFree(t) THEN FREE_TRANSACTIONS_PER_SENDER_MAX ELSE TRANSACTIONS_PER_SENDER_MAX

\* A broadcast gate that looks at the number of in-flight broadcasts alone and
\* not at the transaction's position in the wait list.
BroadcastSlotTakenNoPosition(list, promises, t) ==
    0 >= MAX_PARALLEL_BROADCASTS - Cardinality(promises)

\* The loop condition of _awaitFreeBroadcastSlot: no slot for the transaction yet.
BroadcastSlotTaken(list, promises, t) ==
    IndexOf(list, t) >= MAX_PARALLEL_BROADCASTS - Cardinality(promises)

\* A mempool gate that looks at the sender's tracked transactions alone and not
\* at the transaction's position in the wait list.
MempoolSlotTakenNoPosition(list, perSender, t) ==
    0 >= MaxMempoolSlots(t) - GetMempoolTransactionCount(perSender, SenderOf(t))

\* The loop condition of _awaitFreeMempoolSlot: no mempool slot for the transaction yet.
MempoolSlotTaken(list, perSender, t) ==
    IndexOf(list, t) >= MaxMempoolSlots(t) - GetMempoolTransactionCount(perSender, SenderOf(t))

\* The for-loop of checkForMinedTransactions: every tracked hash that the fetched
\* mempool content does not hold is removed, one _removeMempoolTransaction at a time.
RECURSIVE RemoveMined(_, _)
RemoveMined(maps, mempoolTransactionHashes) ==
    LET gone == DOMAIN maps[2] \ mempoolTransactionHashes
    IN  IF gone = {} THEN maps
        ELSE LET txHash == CHOOSE h \in gone : TRUE
             IN  RemoveMined(RemoveMempoolTransaction(maps, txHash, maps[2][txHash]),
                             mempoolTransactionHashes)

\* transactions.forEach(({hash, fromAddress}) => this._addMempoolTransaction(hash, fromAddress))
RECURSIVE AddAll(_, _)
AddAll(maps, transactions) ==
    IF transactions = {} THEN maps
    ELSE LET t == CHOOSE x \in transactions : TRUE
         IN  AddAll(AddMempoolTransaction(maps, t, SenderOf(t)), transactions \ {t})

EmptyMap == [x \in {} |-> {}]

\* The fee tiers of the submitted transactions: a batch of free transactions, a
\* batch of paid ones, or a free transaction followed by paid ones.
FeeTiers == { [t \in Tx |-> "free"], [t \in Tx |-> "paid"],
             [t \in Tx |-> IF t = 1 THEN "free" ELSE "paid"] }

\* -------------------------------------------------------------------- Init
\* The state after `new TransactionBroadcaster(rpcClient)`: the mempoolContent
\* request of the constructor is under way, all collections are empty.
BroadcasterInit ==
    /\ feeTier \in FeeTiers
    /\ initialized = "pending"
    /\ broadcastSlotWaitList = << >>
    /\ mempoolSlotWaitListPerSender = EmptyMap
    /\ mempoolTransactionsPerSender = EmptyMap
    /\ senderPerMempoolTransaction = EmptyMap
    /\ transactionMiningPromise = FALSE
    /\ lastBlockHeight = 0
    /\ broadcastPromises = {}
    /\ call = [t \in Tx |-> "idle"]
    /\ bs = [t \in Tx |-> "none"]
    /\ raceSet = [t \in Tx |-> {}]
    /\ ms = [t \in Tx |-> "none"]
    /\ snd = [t \in Tx |-> "none"]
    /\ attempts = [t \in Tx |-> 0]
    /\ failures = [t \in Tx |-> 0]
    /\ pollLoops = << >>
    /\ pending = [pc |-> "idle", set |-> {}]
    /\ bsQueued = << >>
    /\ msQueued = << >>
    /\ nodeHeight = 0
    /\ nodeMempool = OldTx

\* None of the tool's synchronous parts is in use.
SlotCheckIdle == slotCheck = [pc |-> "none"]
CodecIdle == codec = [pc |-> "none"]
CsvFileIdle == csvFile = [pc |-> "none"]
CreationIdle == creation = [pc |-> "none"]
StatisticsIdle == statistics = [pc |-> "none"]
HandlerIdle == handler = [pc |-> "none"]
WorkflowIdle == workflow = [pc |-> "none"]

ToolsIdle ==
    /\ SlotCheckIdle /\ CodecIdle /\ CsvFileIdle /\ CreationIdle
    /\ StatisticsIdle /\ HandlerIdle /\ WorkflowIdle

\* A run of the broadcaster
Init == BroadcasterInit /\ ToolsIdle

clientMaps == << mempoolSlotWaitListPerSender, mempoolTransactionsPerSender,
                 senderPerMempoolTransaction >>

history == << bsQueued, msQueued >>

\* A sequence without the element t
Without(seq, t) == SelectSeq(seq, LAMBDA x : x # t)

\* ------------------------------------------------- constructor (lines 155-166)
\* The mempoolContent call of the constructor succeeds: every transaction the
\* node holds is recorded for its sender, and _initializedPromise resolves.
InitResolve ==
    /\ initialized = "pending"
    /\ initialized' = "resolved"
    /\ LET maps == AddAll(<< mempoolTransactionsPerSender, senderPerMempoolTransaction >>,
                          nodeMempool)
       IN  /\ mempoolTransactionsPerSender' = maps[1]
           /\ senderPerMempoolTransaction' = maps[2]
    /\ UNCHANGED toolVars
    /\ UNCHANGED << history, feeTier, broadcastSlotWaitList, mempoolSlotWaitListPerSender,
                    transactionMiningPromise, lastBlockHeight, broadcastPromises,
                    call, bs, raceSet, ms, snd, attempts, failures, pollLoops, pending,
                    nodeHeight, nodeMempool >>

\* The mempoolContent call of the constructor fails: _initializedPromise rejects.
InitReject ==
    /\ initialized = "pending"
    /\ initialized' = "rejected"
    /\ UNCHANGED toolVars
    /\ UNCHANGED << history, feeTier, broadcastSlotWaitList, clientMaps,
                    transactionMiningPromise, lastBlockHeight, broadcastPromises,
                    call, bs, raceSet, ms, snd, attempts, failures, pollLoops, pending,
                    nodeHeight, nodeMempool >>

\* ------------------------------------------ broadcastTransaction (lines 12-18)
\* A caller starts broadcastTransaction(t): _awaitFreeBroadcastSlot(t) and
\* _awaitFreeMempoolSlot(t) are both started and both suspend at their first
\* `await this._initializedPromise`; the call suspends at Promise.all.
Call(t) ==
    /\ call[t] = "idle"
    /\ call' = [call EXCEPT ![t] = "waiting"]
    /\ bs' = [bs EXCEPT ![t] = "init"]
    /\ ms' = [ms EXCEPT ![t] = "init"]
    /\ UNCHANGED toolVars
    /\ UNCHANGED << history, feeTier, initialized, broadcastSlotWaitList, clientMaps,
                    transactionMiningPromise, lastBlockHeight, broadcastPromises,
                    raceSet, snd, attempts, failures, pollLoops, pending,
                    nodeHeight, nodeMempool >>

\* _initializedPromise has rejected: both slot functions throw at their first
\* await and Promise.all rejects, so broadcastTransaction(t) rejects.
CallReject(t) ==
    /\ call[t] = "waiting"
    /\ initialized = "rejected"
    /\ call' = [call EXCEPT ![t] = "rejected"]
    /\ bs' = [bs EXCEPT ![t] = "rejected"]
    /\ ms' = [ms EXCEPT ![t] = "rejected"]
    /\ UNCHANGED toolVars
    /\ UNCHANGED << history, feeTier, initialized, broadcastSlotWaitList, clientMaps,
                    transactionMiningPromise, lastBlockHeight, broadcastPromises,
                    raceSet, snd, attempts, failures, pollLoops, pending,
                    nodeHeight, nodeMempool >>

\* ------------------------------------- _awaitFreeBroadcastSlot (lines 54-66)
\* The loop of _awaitFreeBroadcastSlot, entered with the wait list `list`:
\* either the transaction has a slot and the function returns, or it awaits
\* Promise.race of the promises that are in flight at this moment.
BroadcastSlotLoop(t, list) ==
    IF BroadcastSlotTaken(list, broadcastPromises, t)
    THEN /\ bs' = [bs EXCEPT ![t] = "race"]
         /\ raceSet' = [raceSet EXCEPT ![t] = broadcastPromises]
    ELSE /\ bs' = [bs EXCEPT ![t] = "done"]
         /\ raceSet' = [raceSet EXCEPT ![t] = {}]

\* An _awaitFreeBroadcastSlot that queues up once _initializedPromise has
\* settled, whether it resolved or rejected.
BroadcastSlotEnterAfterFailure(t) ==
    /\ bs[t] = "init"
    /\ initialized # "pending"
    /\ broadcastSlotWaitList' = Push(broadcastSlotWaitList, t)
    /\ BroadcastSlotLoop(t, broadcastSlotWaitList')
    /\ bsQueued' = Append(bsQueued, t)
    /\ UNCHANGED toolVars
    /\ UNCHANGED << msQueued, feeTier, initialized, clientMaps,
                    transactionMiningPromise, lastBlockHeight, broadcastPromises,
                    call, ms, snd, attempts, failures, pollLoops, pending,
                    nodeHeight, nodeMempool >>

\* After _initializedPromise: queue up, then enter the loop.
BroadcastSlotEnter(t) ==
    /\ bs[t] = "init"
    /\ initialized = "resolved"
    /\ broadcastSlotWaitList' = Push(broadcastSlotWaitList, t)
    /\ BroadcastSlotLoop(t, broadcastSlotWaitList')
    /\ bsQueued' = Append(bsQueued, t)
    /\ UNCHANGED toolVars
    /\ UNCHANGED << msQueued, feeTier, initialized, clientMaps,
                    transactionMiningPromise, lastBlockHeight, broadcastPromises,
                    call, ms, snd, attempts, failures, pollLoops, pending,
                    nodeHeight, nodeMempool >>

\* Promise.race settles once one of the promises handed to it has settled; a
\* broadcast promise settles when its transaction's send has succeeded.  The
\* loop condition is evaluated again.
BroadcastSlotWake(t) ==
    /\ bs[t] = "race"
    /\ \E p \in raceSet[t] : snd[p] = "done"
    /\ BroadcastSlotLoop(t, broadcastSlotWaitList)
    /\ UNCHANGED toolVars
    /\ UNCHANGED << history, feeTier, initialized, broadcastSlotWaitList, clientMaps,
                    transactionMiningPromise, lastBlockHeight, broadcastPromises,
                    call, ms, snd, attempts, failures, pollLoops, pending,
                    nodeHeight, nodeMempool >>

\* --------------------------------------- _awaitFreeMempoolSlot (lines 68-95)
\* The loop of _awaitFreeMempoolSlot, entered with the sender's wait list `list`:
\* either the transaction has a mempool slot and the function returns, or it
\* calls _awaitTransactionMining, which suspends at `await this._initializedPromise`.
MempoolSlotLoop(t, list) ==
    IF MempoolSlotTaken(list, mempoolTransactionsPerSender, t)
    THEN ms' = [ms EXCEPT ![t] = "enter"]
    ELSE ms' = [ms EXCEPT ![t] = "done"]

\* An _awaitFreeMempoolSlot that does not await _initializedPromise.
MempoolSlotEnterBeforeInit(t) ==
    /\ ms[t] = "init"
    /\ LET sender == SenderOf(t)
           senderMempoolSlotWaitList ==
               IF sender \in DOMAIN mempoolSlotWaitListPerSender
               THEN mempoolSlotWaitListPerSender[sender]
               ELSE << >>
       IN  /\ mempoolSlotWaitListPerSender' =
                  MapSet(mempoolSlotWaitListPerSender, sender, Push(senderMempoolSlotWaitList, t))
           /\ MempoolSlotLoop(t, mempoolSlotWaitListPerSender'[sender])
    /\ msQueued' = Append(msQueued, t)
    /\ UNCHANGED toolVars
    /\ UNCHANGED << bsQueued, feeTier, initialized, broadcastSlotWaitList,
                    mempoolTransactionsPerSender, senderPerMempoolTransaction,
                    transactionMiningPromise, lastBlockHeight, broadcastPromises,
                    call, bs, raceSet, snd, attempts, failures, pollLoops, pending,
                    nodeHeight, nodeMempool >>

\* After _initializedPromise: pick the limit, get or create the sender's wait
\* list, queue up, then enter the loop.
MempoolSlotEnter(t) ==
    /\ ms[t] = "init"
    /\ initialized = "resolved"
    /\ LET sender == SenderOf(t)
           senderMempoolSlotWaitList ==
               IF sender \in DOMAIN mempoolSlotWaitListPerSender
               THEN mempoolSlotWaitListPerSender[sender]
               ELSE << >>
       IN  /\ mempoolSlotWaitListPerSender' =
                  MapSet(mempoolSlotWaitListPerSender, sender, Push(senderMempoolSlotWaitList, t))
           /\ MempoolSlotLoop(t, mempoolSlotWaitListPerSender'[sender])
    /\ msQueued' = Append(msQueued, t)
    /\ UNCHANGED toolVars
    /\ UNCHANGED << bsQueued, feeTier, initialized, broadcastSlotWaitList,
                    mempoolTransactionsPerSender, senderPerMempoolTransaction,
                    transactionMiningPromise, lastBlockHeight, broadcastPromises,
                    call, bs, raceSet, snd, attempts, failures, pollLoops, pending,
                    nodeHeight, nodeMempool >>

\* The wait list the suspended _awaitFreeMempoolSlot(t) holds in its local
\* variable senderMempoolSlotWaitList: the sender's array, which stays the one
\* the Map holds for as long as t is queued in it.
HeldWaitList(t) ==
    IF SenderOf(t) \in DOMAIN mempoolSlotWaitListPerSender
    THEN mempoolSlotWaitListPerSender[SenderOf(t)]
    ELSE << >>

\* The shared promise of _awaitTransactionMining has resolved: the loop
\* condition of _awaitFreeMempoolSlot is evaluated again.
MempoolSlotWake(t) ==
    /\ ms[t] = "woken"
    /\ MempoolSlotLoop(t, HeldWaitList(t))
    /\ UNCHANGED toolVars
    /\ UNCHANGED << history, feeTier, initialized, broadcastSlotWaitList, clientMaps,
                    transactionMiningPromise, lastBlockHeight, broadcastPromises,
                    call, bs, raceSet, snd, attempts, failures, pollLoops, pending,
                    nodeHeight, nodeMempool >>

\* ------------------------------------- _awaitTransactionMining (lines 97-127)
\* A waiter that starts a polling loop of its own, whether one is pending or not.
StartsPollingLoopAlways == TRUE

\* if (!this._transactionMiningPromise): whether a waiter has to create the
\* shared promise and start a polling loop.
StartsPollingLoop == ~transactionMiningPromise

\* A freshly started checkForMinedTransactions: its blockNumber call is under way.
NewPollLoop == [pc |-> "height", snap |-> {}]

\* After `await this._initializedPromise` in _awaitTransactionMining: create the
\* shared promise and start the polling loop if there is none, and await the
\* shared promise.
AwaitTransactionMining(t) ==
    /\ ms[t] = "enter"
    /\ initialized = "resolved"
    /\ IF StartsPollingLoop
       THEN /\ transactionMiningPromise' = TRUE
            /\ pollLoops' = Append(pollLoops, NewPollLoop)
       ELSE UNCHANGED << transactionMiningPromise, pollLoops >>
    /\ ms' = [ms EXCEPT ![t] = "mining"]
    /\ UNCHANGED toolVars
    /\ UNCHANGED << history, feeTier, initialized, broadcastSlotWaitList, clientMaps,
                    lastBlockHeight, broadcastPromises,
                    call, bs, raceSet, snd, attempts, failures, pending,
                    nodeHeight, nodeMempool >>

\* pollLoops without its i-th loop
DropLoop(i) == SubSeq(pollLoops, 1, i - 1) \o SubSeq(pollLoops, i + 1, Len(pollLoops))

\* The blockNumber call of loop i returns (at first, or after the 1 s timer).
\* An unchanged height: nothing was mined, check again after the timer.  A new
\* height: remember it and request the mempool content.
PollBlockHeight(i) ==
    /\ i \in 1..Len(pollLoops)
    /\ pollLoops[i].pc = "height"
    /\ LET blockHeight == nodeHeight
       IN  IF blockHeight # lastBlockHeight
           THEN /\ lastBlockHeight' = blockHeight
                /\ pollLoops' = [pollLoops EXCEPT ![i] = [pc |-> "mempool", snap |-> {}]]
           ELSE UNCHANGED << lastBlockHeight, pollLoops >>
    /\ UNCHANGED toolVars
    /\ UNCHANGED << feeTier, initialized, broadcastSlotWaitList, clientMaps,
                    transactionMiningPromise, broadcastPromises,
                    call, bs, raceSet, ms, snd, attempts, failures, pending,
                    history, nodeHeight, nodeMempool >>

\* The node handles the mempoolContent request of loop i: the response carries
\* the hashes the node's mempool holds at this moment.
NodeMempoolContent(i) ==
    /\ i \in 1..Len(pollLoops)
    /\ pollLoops[i].pc = "mempool"
    /\ pollLoops' = [pollLoops EXCEPT ![i] = [pc |-> "content", snap |-> nodeMempool]]
    /\ UNCHANGED toolVars
    /\ UNCHANGED << history, feeTier, initialized, broadcastSlotWaitList, clientMaps,
                    transactionMiningPromise, lastBlockHeight, broadcastPromises,
                    call, bs, raceSet, ms, snd, attempts, failures, pending,
                    nodeHeight, nodeMempool >>

\* The mempoolContent response reaches loop i: tracked hashes that it does not
\* hold are removed.  If any was removed the shared promise is cleared and
\* resolved, which wakes every waiter; otherwise the loop checks again later.
PollMempoolContent(i) ==
    /\ i \in 1..Len(pollLoops)
    /\ pollLoops[i].pc = "content"
    /\ LET mempoolTransactionHashes == pollLoops[i].snap
           anyMined == DOMAIN senderPerMempoolTransaction \ mempoolTransactionHashes # {}
           maps == RemoveMined(<< mempoolTransactionsPerSender, senderPerMempoolTransaction >>,
                               mempoolTransactionHashes)
       IN  /\ mempoolTransactionsPerSender' = maps[1]
           /\ senderPerMempoolTransaction' = maps[2]
           /\ IF anyMined
              THEN /\ transactionMiningPromise' = FALSE
                   /\ pollLoops' = DropLoop(i)
                   /\ ms' = [t \in Tx |-> IF ms[t] = "mining" THEN "woken" ELSE ms[t]]
              ELSE /\ pollLoops' = [pollLoops EXCEPT ![i] = [pc |-> "height", snap |-> {}]]
                   /\ UNCHANGED << transactionMiningPromise, ms >>
    /\ UNCHANGED toolVars
    /\ UNCHANGED << feeTier, initialized, broadcastSlotWaitList, mempoolSlotWaitListPerSender,
                    lastBlockHeight, broadcastPromises,
                    call, bs, raceSet, snd, attempts, failures, pending,
                    history, nodeHeight, nodeMempool >>

\* The blockNumber or mempoolContent call of loop i fails: the await throws,
\* checkForMinedTransactions ends with a rejection nobody handles, and the
\* shared promise is neither resolved nor cleared.
PollRpcFail(i) ==
    /\ i \in 1..Len(pollLoops)
    /\ pollLoops' = DropLoop(i)
    /\ UNCHANGED toolVars
    /\ UNCHANGED << history, feeTier, initialized, broadcastSlotWaitList, clientMaps,
                    transactionMiningPromise, lastBlockHeight, broadcastPromises,
                    call, bs, raceSet, ms, snd, attempts, failures, pending,
                    nodeHeight, nodeMempool >>

\* ----------------------------------------- broadcastTransaction (lines 20-48)
\* A broadcastTransaction that starts the send and does not add its promise to
\* the in-flight set.
DispatchForgetsPromise(t) ==
    /\ call[t] = "waiting"
    /\ initialized = "resolved"
    /\ bs[t] = "done"
    /\ ms[t] = "done"
    /\ snd' = [snd EXCEPT ![t] = "sending"]
    /\ attempts' = [attempts EXCEPT ![t] = @ + 1]
    /\ broadcastSlotWaitList' = Splice1(broadcastSlotWaitList, IndexOf(broadcastSlotWaitList, t))
    /\ call' = [call EXCEPT ![t] = "returned"]
    /\ bsQueued' = Without(bsQueued, t)
    /\ UNCHANGED toolVars
    /\ UNCHANGED << msQueued, feeTier, initialized, clientMaps, broadcastPromises,
                    transactionMiningPromise, lastBlockHeight,
                    bs, raceSet, ms, failures, pollLoops, pending,
                    nodeHeight, nodeMempool >>

\* Promise.all has resolved (initialization done, both slots acquired): the
\* send is started without awaiting it, its promise joins the in-flight set,
\* the broadcast wait list reservation is freed and the call returns.
Dispatch(t) ==
    /\ call[t] = "waiting"
    /\ initialized = "resolved"
    /\ bs[t] = "done"
    /\ ms[t] = "done"
    /\ snd' = [snd EXCEPT ![t] = "sending"]
    /\ attempts' = [attempts EXCEPT ![t] = @ + 1]
    /\ broadcastPromises' = broadcastPromises \cup {t}
    /\ broadcastSlotWaitList' = Splice1(broadcastSlotWaitList, IndexOf(broadcastSlotWaitList, t))
    /\ call' = [call EXCEPT ![t] = "returned"]
    /\ bsQueued' = Without(bsQueued, t)
    /\ UNCHANGED toolVars
    /\ UNCHANGED << msQueued, feeTier, initialized, clientMaps,
                    transactionMiningPromise, lastBlockHeight,
                    bs, raceSet, ms, failures, pollLoops, pending,
                    nodeHeight, nodeMempool >>

\* The node accepts the transaction of a sendTransaction call into its mempool;
\* the response is on its way to the broadcaster.
NodeAccept(t) ==
    /\ snd[t] = "sending"
    /\ snd' = [snd EXCEPT ![t] = "accepted"]
    /\ nodeMempool' = nodeMempool \cup {t}
    /\ UNCHANGED toolVars
    /\ UNCHANGED << history, feeTier, initialized, broadcastSlotWaitList, clientMaps,
                    transactionMiningPromise, lastBlockHeight, broadcastPromises,
                    call, bs, raceSet, ms, attempts, failures, pollLoops, pending,
                    nodeHeight >>

\* A catch branch that gives the transaction up: it settles the broadcast
\* promise, which leaves the in-flight set, and schedules no retry.
SendFailGivesUp(t) ==
    /\ snd[t] = "sending"
    /\ snd' = [snd EXCEPT ![t] = "none"]
    /\ failures' = [failures EXCEPT ![t] = @ + 1]
    /\ broadcastPromises' = broadcastPromises \ {t}
    /\ UNCHANGED toolVars
    /\ UNCHANGED << history, feeTier, initialized, broadcastSlotWaitList, clientMaps,
                    transactionMiningPromise, lastBlockHeight,
                    call, bs, raceSet, ms, attempts, pollLoops, pending,
                    nodeHeight, nodeMempool >>

\* A catch branch that surfaces the failure: broadcastTransaction(t) rejects.
SendFailSurfaces(t) ==
    /\ snd[t] = "sending"
    /\ snd' = [snd EXCEPT ![t] = "retry"]
    /\ failures' = [failures EXCEPT ![t] = @ + 1]
    /\ call' = [call EXCEPT ![t] = "rejected"]
    /\ UNCHANGED toolVars
    /\ UNCHANGED << history, feeTier, initialized, broadcastSlotWaitList, clientMaps,
                    transactionMiningPromise, lastBlockHeight, broadcastPromises,
                    bs, raceSet, ms, attempts, pollLoops, pending,
                    nodeHeight, nodeMempool >>

\* The catch branch of sendTransactionUntilSuccess: the call failed, the failure
\* is logged and a retry is scheduled in 60 s.  Nothing else changes.
SendFail(t) ==
    /\ snd[t] = "sending"
    /\ snd' = [snd EXCEPT ![t] = "retry"]
    /\ failures' = [failures EXCEPT ![t] = @ + 1]
    /\ UNCHANGED toolVars
    /\ UNCHANGED << history, feeTier, initialized, broadcastSlotWaitList, clientMaps,
                    transactionMiningPromise, lastBlockHeight, broadcastPromises,
                    call, bs, raceSet, ms, attempts, pollLoops, pending,
                    nodeHeight, nodeMempool >>

\* The retry timer fires: sendTransactionUntilSuccess runs again.
SendRetry(t) ==
    /\ snd[t] = "retry"
    /\ snd' = [snd EXCEPT ![t] = "sending"]
    /\ attempts' = [attempts EXCEPT ![t] = @ + 1]
    /\ UNCHANGED toolVars
    /\ UNCHANGED << history, feeTier, initialized, broadcastSlotWaitList, clientMaps,
                    transactionMiningPromise, lastBlockHeight, broadcastPromises,
                    call, bs, raceSet, ms, failures, pollLoops, pending,
                    nodeHeight, nodeMempool >>

\* The wait list reservation is freed in the success callback (lines 36-41).
FreeMempoolReservation(waitLists, t) ==
    LET sender == SenderOf(t)
        senderMempoolSlotWaitList == waitLists[sender]
    IN  IF Len(senderMempoolSlotWaitList) > 1
        THEN MapSet(waitLists, sender,
                    Splice1(senderMempoolSlotWaitList, IndexOf(senderMempoolSlotWaitList, t)))
        ELSE MapDelete(waitLists, sender)

\* The success response reaches the broadcaster: resolve(), then the callback
\* records the transaction as in mempool, frees the mempool wait list
\* reservation and takes the promise out of the in-flight set.
SendSuccess(t) ==
    /\ snd[t] = "accepted"
    /\ snd' = [snd EXCEPT ![t] = "done"]
    /\ LET maps == AddMempoolTransaction(
                       << mempoolTransactionsPerSender, senderPerMempoolTransaction >>,
                       t, SenderOf(t))
       IN  /\ mempoolTransactionsPerSender' = maps[1]
           /\ senderPerMempoolTransaction' = maps[2]
    /\ mempoolSlotWaitListPerSender' = FreeMempoolReservation(mempoolSlotWaitListPerSender, t)
    /\ broadcastPromises' = broadcastPromises \ {t}
    /\ msQueued' = Without(msQueued, t)
    /\ UNCHANGED toolVars
    /\ UNCHANGED << bsQueued, feeTier, initialized, broadcastSlotWaitList,
                    transactionMiningPromise, lastBlockHeight,
                    call, bs, raceSet, ms, attempts, failures, pollLoops, pending,
                    nodeHeight, nodeMempool >>

\* --------------------------------------- awaitPendingBroadcasts (lines 50-52)
\* Promise.all over the promises that are in flight at the call.  The callers
\* (fundCashlinks, claimCashlinks) call it once the broadcastTransaction calls
\* of their batch have returned.
AwaitPendingBroadcasts ==
    /\ pending.pc = "idle"
    /\ \A t \in Tx : call[t] \notin {"idle", "waiting"}
    /\ pending' = [pc |-> "waiting", set |-> broadcastPromises]
    /\ UNCHANGED toolVars
    /\ UNCHANGED << history, feeTier, initialized, broadcastSlotWaitList, clientMaps,
                    transactionMiningPromise, lastBlockHeight, broadcastPromises,
                    call, bs, raceSet, ms, snd, attempts, failures, pollLoops,
                    nodeHeight, nodeMempool >>

\* A Promise.all over promises that settle with the node's first response,
\* be it a success or a failure.
FirstResponseSettles(set) == \A p \in set : snd[p] \in {"done", "retry"}

\* Promise.all(set) resolves once every promise of the set has resolved.
AllSettled(set) == \A p \in set : snd[p] = "done"

PendingBroadcastsResolve ==
    /\ pending.pc = "waiting"
    /\ AllSettled(pending.set)
    /\ pending' = [pending EXCEPT !.pc = "resolved"]
    /\ UNCHANGED toolVars
    /\ UNCHANGED << history, feeTier, initialized, broadcastSlotWaitList, clientMaps,
                    transactionMiningPromise, lastBlockHeight, broadcastPromises,
                    call, bs, raceSet, ms, snd, attempts, failures, pollLoops,
                    nodeHeight, nodeMempool >>

\* ------------------------------------------------------------------- node
\* The node mines a block that includes some of its mempool's transactions.
NodeMine(mined) ==
    /\ nodeHeight < MaxHeight
    /\ nodeHeight' = nodeHeight + 1
    /\ nodeMempool' = nodeMempool \ mined
    /\ UNCHANGED toolVars
    /\ UNCHANGED << history, feeTier, initialized, broadcastSlotWaitList, clientMaps,
                    transactionMiningPromise, lastBlockHeight, broadcastPromises,
                    call, bs, raceSet, ms, snd, attempts, failures, pollLoops, pending >>

TotalFailures == LET RECURSIVE Sum(_)
                     Sum(n) == IF n = 0 THEN 0 ELSE failures[n] + Sum(n - 1)
                 IN  Sum(NumTx)

\* A continuation of broadcastTransaction(t) or of one of its slot functions is
\* runnable: the promise it awaits has settled.
Runnable(t) ==
    \/ initialized # "pending" /\ call[t] = "waiting" /\ (bs[t] = "init" \/ ms[t] = "init")
    \/ ms[t] \in {"enter", "woken"}
    \/ bs[t] = "race" /\ \E p \in raceSet[t] : snd[p] = "done"
    \/ call[t] = "waiting" /\ bs[t] = "done" /\ ms[t] = "done"

\* The microtask queue is empty.  Node.js runs the callback of an RPC response
\* or of a timer only then: continuations of settled promises run first.
Quiescent ==
    /\ \A t \in Tx : ~Runnable(t)
    /\ ~(pending.pc = "waiting" /\ AllSettled(pending.set))

\* ------------------------------------------------------------ specification
\* The steps of the broadcaster and of the node.  A callback of the event loop
\* (an RPC response, a timer) runs when no continuation is runnable; the
\* node's own steps commute with the continuations and are taken then, too.
Steps ==
    \/ Quiescent /\ InitResolve
    \/ Quiescent /\ InitReject
    \/ \E t \in Tx : CallReject(t)
    \/ \E t \in Tx : BroadcastSlotEnter(t)
    \/ \E t \in Tx : BroadcastSlotWake(t)
    \/ \E t \in Tx : MempoolSlotEnter(t)
    \/ \E t \in Tx : MempoolSlotWake(t)
    \/ \E t \in Tx : AwaitTransactionMining(t)
    \/ \E i \in 1..Len(pollLoops) : Quiescent /\ PollBlockHeight(i)
    \/ \E i \in 1..Len(pollLoops) : Quiescent /\ NodeMempoolContent(i)
    \/ \E i \in 1..Len(pollLoops) : Quiescent /\ PollMempoolContent(i)
    \/ \E i \in 1..Len(pollLoops) : Quiescent /\ PollRpcFail(i)
    \/ \E t \in Tx : Dispatch(t)
    \/ \E t \in Tx : Quiescent /\ NodeAccept(t)
    \/ \E t \in Tx : Quiescent /\ TotalFailures < MaxFail /\ SendFail(t)
    \/ \E t \in Tx : Quiescent /\ SendRetry(t)
    \/ \E t \in Tx : Quiescent /\ SendSuccess(t)
    \/ AwaitPendingBroadcasts
    \/ PendingBroadcastsResolve
    \/ \E mined \in SUBSET nodeMempool : Quiescent /\ NodeMine(mined)

\* Any callers: broadcastTransaction is called for any transaction at any time.
Next ==
    \/ \E t \in Tx : Call(t)
    \/ Steps

Spec == Init /\ [][Next]_vars

\* The sequential caller fundCashlinks (src/unnamed/part_006 lines 29-39): each
\* broadcastTransaction call is awaited before the next one is started.
SeqCall(t) ==
    /\ \A u \in Tx : u < t => call[u] = "returned"
    /\ Call(t)

NextSeq ==
    \/ \E t \in Tx : SeqCall(t)
    \/ Steps

SpecSeq == Init /\ [][NextSeq]_vars

\* ------------------------------------------------------------------ checks
\* The queued transactions hold their place: a transaction that waits for, or
\* has, a slot and is not yet sent (resp. not yet accepted) is in the wait list.
WaitListsConsistent ==
    \A t \in Tx :
        /\ (bs[t] \in {"race", "done"} /\ call[t] = "waiting") <=> IndexOf(broadcastSlotWaitList, t) >= 0
        /\ (ms[t] \in {"enter", "mining", "woken", "done"} /\ snd[t] # "done")
               <=> IndexOf(HeldWaitList(t), t) >= 0

\* C1: the set of in-flight broadcast promises never holds more than
\* MAX_PARALLEL_BROADCASTS entries, whatever the callers and the node do.
C1_InFlightWithinLimit ==
    Cardinality(broadcastPromises) <= MAX_PARALLEL_BROADCASTS

\* All slots are taken by dispatched, unconfirmed broadcasts while a further
\* transaction waits at the broadcast gate.
C1_Witness ==
    /\ Cardinality(broadcastPromises) = MAX_PARALLEL_BROADCASTS
    /\ \A p \in broadcastPromises : snd[p] # "done"
    /\ \E t \in Tx : bs[t] = "race"

\* ---------------------------------------------------------------- C2
\* All transactions have been submitted and none has been dispatched yet, and
\* no node call has failed.
SubmittedSimultaneously ==
    /\ \A t \in Tx : call[t] = "waiting"
    /\ TotalFailures = 0

\* C2: with N > K transactions submitted simultaneously to a reliable node no
\* caller stays blocked forever in _awaitFreeBroadcastSlot (so that every
\* transaction is dispatched in the end): a caller that waits at the broadcast
\* gate waits for at least one in-flight broadcast, whose completion wakes it.
\* Promise.race of no promise never settles.
C2_NoCallerBlockedForever ==
    SubmittedSimultaneously =>
        \A t \in Tx : bs[t] = "race" => raceSet[t] # {}

\* ---------------------------------------------------------------- C3
\* The submitted transactions of sender s
TxOf(s) == {t \in Tx : SenderOf(t) = s}

\* All submitted transactions of sender s are of one fee tier.
OneFeeTier(s) == \A t, u \in TxOf(s) : feeTier[t] = feeTier[u]

\* The per-sender limit of that tier
LimitOf(s) ==
    IF \E t \in TxOf(s) : feeTier[t] = "free"
    THEN FREE_TRANSACTIONS_PER_SENDER_MAX
    ELSE TRANSACTIONS_PER_SENDER_MAX

\* The transactions of s tracked as in mempool
Tracked(s) == {h \in DOMAIN senderPerMempoolTransaction : senderPerMempoolTransaction[h] = s}

\* C3: for a sender whose transactions are all of one fee tier with limit M,
\* and with at most M of its transactions in the mempool at initialization, no
\* more than M of its transactions are tracked as in mempool at once.
C3_TrackedWithinLimit ==
    \A s \in Senders :
        (/\ TxOf(s) # {}
         /\ OneFeeTier(s)
         /\ Cardinality({o \in OldTx : SenderOf(o) = s}) <= LimitOf(s))
        => /\ Cardinality(Tracked(s)) <= LimitOf(s)
           /\ GetMempoolTransactionCount(mempoolTransactionsPerSender, s) <= LimitOf(s)

\* More transactions than the limit were submitted by one sender: the limit is
\* reached with a transaction of this run tracked and a further one waiting at
\* the mempool gate.
C3_Witness ==
    \E s \in Senders :
        /\ OneFeeTier(s)
        /\ Cardinality(TxOf(s)) > LimitOf(s)
        /\ Cardinality(Tracked(s)) = LimitOf(s)
        /\ \E t \in TxOf(s) : t \in Tracked(s)
        /\ \E u \in TxOf(s) : ms[u] = "mining"

\* ---------------------------------------------------------------- C4
\* The transactions of s admitted past the mempool gate and not yet confirmed
\* as accepted
AdmittedUnconfirmed(s) == {t \in TxOf(s) : ms[t] = "done" /\ snd[t] # "done"}

\* C4: for every sender (with transactions of one fee tier), once the
\* broadcaster is initialized, admitted-but-unconfirmed plus tracked
\* transactions stay within the limit, every transaction of the sender that
\* the node holds in its mempool is counted in one of the two groups, and so
\* the node holds no more than the limit for that sender.
C4_ObservesNodeLimit ==
    \A s \in Senders :
        (/\ initialized = "resolved"
         /\ TxOf(s) # {}
         /\ OneFeeTier(s)
         /\ Cardinality({o \in OldTx : SenderOf(o) = s}) <= LimitOf(s))
        => /\ Cardinality(AdmittedUnconfirmed(s)) + Cardinality(Tracked(s)) <= LimitOf(s)
           /\ \A t \in nodeMempool :
                  SenderOf(t) = s => t \in Tracked(s) \cup AdmittedUnconfirmed(s)
           /\ Cardinality({t \in nodeMempool : SenderOf(t) = s}) <= LimitOf(s)

\* The first part of C4 alone: the broadcaster's own count stays within the limit.
C4_CountedWithinLimit ==
    \A s \in Senders :
        (/\ initialized = "resolved"
         /\ TxOf(s) # {}
         /\ OneFeeTier(s)
         /\ Cardinality({o \in OldTx : SenderOf(o) = s}) <= LimitOf(s))
        => Cardinality(AdmittedUnconfirmed(s)) + Cardinality(Tracked(s)) <= LimitOf(s)

\* ---------------------------------------------------------------- C5
\* u holds a reservation that was queued before the one of t.
Before(queued, u, t) ==
    /\ IndexOf(queued, u) >= 0
    /\ IndexOf(queued, t) >= 0
    /\ IndexOf(queued, u) < IndexOf(queued, t)

\* The broadcast gate refuses u: the loop condition of lines 60-63
RefusedAtBroadcastGate(list, promises, u) ==
    IndexOf(list, u) >= MAX_PARALLEL_BROADCASTS - Cardinality(promises)

\* The mempool gate refuses u: the loop condition of lines 89-92
RefusedAtMempoolGate(waitLists, perSender, u) ==
    LET list == IF SenderOf(u) \in DOMAIN waitLists THEN waitLists[SenderOf(u)] ELSE << >>
        limit == IF feeTier[u] = "free" THEN FREE_TRANSACTIONS_PER_SENDER_MAX
                                        ELSE TRANSACTIONS_PER_SENDER_MAX
    IN  IndexOf(list, u) >= limit - GetMempoolTransactionCount(perSender, SenderOf(u))

\* t passes the broadcast gate in this step.
PassesBroadcastGate(t) == bs[t] # "done" /\ bs'[t] = "done"

\* t passes the mempool gate in this step.
PassesMempoolGate(t) == ms[t] # "done" /\ ms'[t] = "done"

\* C5 as stated: a transaction is never admitted past the broadcast gate, or
\* past its sender's mempool gate, while a transaction queued earlier for the
\* same gate (same sender for the mempool gate) is still refused admission.
C5_FifoAtBothGates ==
    [][\A t, u \in Tx :
        /\ (PassesBroadcastGate(t) /\ Before(bsQueued', u, t))
           => ~RefusedAtBroadcastGate(broadcastSlotWaitList', broadcastPromises', u)
        /\ (PassesMempoolGate(t) /\ Before(msQueued', u, t) /\ SenderOf(u) = SenderOf(t))
           => ~RefusedAtMempoolGate(mempoolSlotWaitListPerSender',
                                    mempoolTransactionsPerSender', u)
      ]_vars

\* C5, amended: a transaction is never admitted past the broadcast gate while
\* the gate's condition still refuses a transaction queued earlier, and never
\* past its sender's mempool gate while that gate's condition still refuses an
\* earlier queued transaction of the same sender and the same fee tier.
C5_FifoWithinFeeTier ==
    [][\A t, u \in Tx :
        /\ (PassesBroadcastGate(t) /\ Before(bsQueued', u, t))
           => ~RefusedAtBroadcastGate(broadcastSlotWaitList', broadcastPromises', u)
        /\ (/\ PassesMempoolGate(t)
            /\ Before(msQueued', u, t)
            /\ SenderOf(u) = SenderOf(t)
            /\ feeTier[u] = feeTier[t])
           => ~RefusedAtMempoolGate(mempoolSlotWaitListPerSender',
                                    mempoolTransactionsPerSender', u)
      ]_vars

\* A mined transaction has freed a slot and woken the waiters: the earlier
\* queued transaction has passed the mempool gate, the one queued behind it
\* (same sender, same fee tier) is about to evaluate the gate and is refused.
C5_Witness ==
    \E u, t \in Tx :
        /\ SenderOf(u) = SenderOf(t)
        /\ feeTier[u] = feeTier[t]
        /\ Before(msQueued, u, t)
        /\ ms[u] = "done"
        /\ snd[u] = "none"
        /\ ms[t] = "woken"
        /\ RefusedAtMempoolGate(mempoolSlotWaitListPerSender, mempoolTransactionsPerSender, t)

\* ---------------------------------------------------------------- C6
\* The node call of t is under way or its retry is scheduled.
Sending(t) == snd[t] \in {"sending", "accepted", "retry"}

\* C6: a dispatched transaction whose node call failed is retried and never
\* dropped: until a send succeeds it stays in the in-flight set and keeps its
\* mempool wait list reservation; every failure is followed by one more
\* attempt, and the success is the last attempt (attempts = failures + 1, so
\* two failures then a success are exactly three attempts and one success).
C6_RetriedUntilSuccess ==
    \A t \in Tx :
        /\ Sending(t) => /\ t \in broadcastPromises
                         /\ IndexOf(HeldWaitList(t), t) >= 0
        /\ failures[t] > 0 => Sending(t) \/ snd[t] = "done"
        /\ snd[t] = "retry" => attempts[t] = failures[t]
        /\ snd[t] \in {"sending", "accepted", "done"} => attempts[t] = failures[t] + 1
        /\ snd[t] = "done" => t \notin broadcastPromises

\* The node failed the first two attempts for t and accepted the third: t is
\* tracked once, after three attempts.
C6_Witness ==
    \E t \in Tx :
        /\ failures[t] = 2
        /\ snd[t] = "done"
        /\ attempts[t] = 3
        /\ t \in DOMAIN senderPerMempoolTransaction
        /\ t \in mempoolTransactionsPerSender[SenderOf(t)]

\* ---------------------------------------------------------------- C7
\* C7: awaitPendingBroadcasts has resolved only if every broadcast that was in
\* flight at its call has been accepted by the node and its success handled;
\* none of them is still being sent or waiting for its retry.
C7_ResolvesAfterAllAccepted ==
    pending.pc = "resolved" =>
        \A p \in pending.set : snd[p] = "done" /\ p \notin broadcastPromises

\* awaitPendingBroadcasts has resolved for a broadcast that failed before it
\* succeeded.
C7_Witness ==
    /\ pending.pc = "resolved"
    /\ \E p \in pending.set : failures[p] >= 1 /\ snd[p] = "done"

\* ---------------------------------------------------------------- C8
\* C8: when broadcastTransaction(t) returns, the node call of t has been
\* started once and has not settled, and t is in the in-flight set.
C8_ReturnsAtDispatch ==
    [][\A t \in Tx :
        (call[t] = "waiting" /\ call'[t] = "returned")
        => /\ t \in broadcastPromises'
           /\ snd'[t] = "sending"
           /\ attempts'[t] = 1
      ]_vars

\* A sequential caller has the limit's number of broadcasts in flight, none
\* of them settled, and has already started its next call.
C8_Witness ==
    /\ Cardinality(broadcastPromises) = MAX_PARALLEL_BROADCASTS
    /\ \A p \in broadcastPromises : call[p] = "returned" /\ snd[p] # "done"
    /\ \E u \in Tx : call[u] = "waiting"

\* ---------------------------------------------------------------- C9
\* C9 as stated, second half: broadcastTransaction has resolved only once the
\* node has accepted the transaction.
C9_ResolvesOnlyOnSuccess ==
    \A t \in Tx : call[t] = "returned" => snd[t] \in {"accepted", "done"}

\* C9, amended: a failed node call never makes broadcastTransaction reject
\* (it rejects only if the initialization failed, before any send); the call
\* has resolved at dispatch, whatever the node answers afterwards, and it is
\* the in-flight promise that settles on success only.
C9_FailureNeverSurfaced ==
    \A t \in Tx :
        /\ call[t] = "rejected" => /\ initialized = "rejected"
                                   /\ attempts[t] = 0
                                   /\ failures[t] = 0
        /\ attempts[t] > 0 => call[t] = "returned"
        /\ (call[t] = "returned" /\ t \notin broadcastPromises) => snd[t] = "done"

\* The node call of t has failed and its retry is scheduled; the call of
\* broadcastTransaction(t) has resolved.
C9_Witness ==
    \E t \in Tx :
        /\ failures[t] >= 1
        /\ snd[t] = "retry"
        /\ call[t] = "returned"
        /\ t \in broadcastPromises

\* --------------------------------------------------------------- C10
\* The waiters of the shared promise of _awaitTransactionMining
Waiters == {t \in Tx : ms[t] = "mining"}

\* C10: at most one polling loop runs at any time; a loop runs, and a caller
\* waits, only while the shared promise is pending, so the promise is cleared
\* only together with the end of its loop and the waking of all its waiters.
C10_OnePollingLoop ==
    /\ Len(pollLoops) <= 1
    /\ Len(pollLoops) = 1 => transactionMiningPromise
    /\ Waiters # {} => transactionMiningPromise

\* Two callers wait on the shared promise while one polling loop runs.
C10_Witness ==
    /\ Cardinality(Waiters) >= 2
    /\ Len(pollLoops) = 1
    /\ transactionMiningPromise

\* --------------------------------------------------------------- C11
\* C11: if the initial mempool query failed, no transaction is queued on the
\* broadcast wait list or on a sender's mempool wait list, none passes a gate
\* and none is sent to the node; a call of broadcastTransaction that has
\* settled has rejected, and a call rejects for no other reason.
C11_InitFailurePropagates ==
    /\ initialized = "rejected" =>
           /\ broadcastSlotWaitList = << >>
           /\ DOMAIN mempoolSlotWaitListPerSender = {}
           /\ broadcastPromises = {}
           /\ \A t \in Tx : /\ call[t] \in {"idle", "waiting", "rejected"}
                            /\ bs[t] \in {"none", "init", "rejected"}
                            /\ ms[t] \in {"none", "init", "rejected"}
                            /\ snd[t] = "none"
                            /\ attempts[t] = 0
                            /\ t \notin nodeMempool
    /\ \A t \in Tx : call[t] = "rejected" => initialized = "rejected"

\* The initial mempool query has failed and every submitted transaction's call
\* of broadcastTransaction has rejected.
C11_Witness ==
    /\ initialized = "rejected"
    /\ \A t \in Tx : call[t] = "rejected"

\* --------------------------------------------------------------- C12
\* C12: a caller that waits for a mempool slot is not left waiting forever
\* after a failed block-height or mempool-content query of the poll: whenever
\* a caller waits on the shared promise, a polling loop that can settle the
\* promise is running (or the failure has reached the caller instead).
C12_PollFailureReachesWaiter ==
    \A t \in Tx : ms[t] = "mining" => Len(pollLoops) >= 1

\* ===================================================== the fee rule (C13)
\* The fee rule at the head of _awaitFreeMempoolSlot (lines 68-76), applied to
\* one transaction of a given fee and size for a sender with `count` tracked
\* transactions and an empty wait list.

\* The fees (in luna) and serialized sizes (in bytes) of the transactions tried
MaxFee == 6
MaxSize == 4

\* Mempool.TRANSACTION_RELAY_FEE_MIN: luna per byte below which a transaction is free
TRANSACTION_RELAY_FEE_MIN == 1

\* A fee rule that takes every transaction with a fee for a paid one.
IsFreeOnlyWithoutFee(fee, serializedSize) == fee = 0

\* transaction.feePerByte < Mempool.TRANSACTION_RELAY_FEE_MIN, where feePerByte
\* is fee / serializedSize; the quotient is below the minimum exactly if the
\* fee is below the minimum times the size.
IsFreeTransaction(fee, serializedSize) == fee < TRANSACTION_RELAY_FEE_MIN * serializedSize

\* if (transaction.fee !== 0 && isFree) console.warn(...)
WarnsLowFee(fee, isFree) == fee # 0 /\ isFree

\* isFree ? FREE_TRANSACTIONS_PER_SENDER_MAX : TRANSACTIONS_PER_SENDER_MAX
MaxMempoolSlotsOf(isFree) ==
    IF isFree THEN FREE_TRANSACTIONS_PER_SENDER_MAX ELSE TRANSACTIONS_PER_SENDER_MAX

\* The broadcaster is constructed and not used.
BroadcasterUnused ==
    /\ BroadcasterInit
    /\ feeTier = [t \in Tx |-> "free"]

\* A transaction is handed to _awaitFreeMempoolSlot.
InitFee ==
    /\ BroadcasterUnused
    /\ CodecIdle /\ CsvFileIdle /\ CreationIdle
    /\ StatisticsIdle /\ HandlerIdle /\ WorkflowIdle
    /\ \E fee \in 0..MaxFee, serializedSize \in 1..MaxSize,
          count \in 0..TRANSACTIONS_PER_SENDER_MAX :
           slotCheck = [pc |-> "start", fee |-> fee, serializedSize |-> serializedSize,
                        count |-> count, isFree |-> FALSE, warned |-> FALSE,
                        maxMempoolSlots |-> 0]

\* Lines 70-88: classify, warn, pick the limit, queue up.  No branch throws.
ApplyFeeRule ==
    /\ slotCheck.pc = "start"
    /\ LET isFree == IsFreeTransaction(slotCheck.fee, slotCheck.serializedSize)
       IN  slotCheck' = [slotCheck EXCEPT !.pc = "queued",
                                          !.isFree = isFree,
                                          !.warned = WarnsLowFee(slotCheck.fee, isFree),
                                          !.maxMempoolSlots = MaxMempoolSlotsOf(isFree)]
    /\ UNCHANGED exceptSlotCheck

\* Lines 89-95: the transaction is first in its sender's wait list; it passes
\* the gate if the limit exceeds the sender's tracked transactions.
CheckMempoolGate ==
    /\ slotCheck.pc = "queued"
    /\ slotCheck' = [slotCheck EXCEPT !.pc =
                         IF 0 >= slotCheck.maxMempoolSlots - slotCheck.count
                         THEN "waiting" ELSE "admitted"]
    /\ UNCHANGED exceptSlotCheck

NextFee == ApplyFeeRule \/ CheckMempoolGate

SpecFee == InitFee /\ [][NextFee]_vars

\* --------------------------------------------------------------- C13
\* The whole luna per byte of a fee: the integer part of fee / serializedSize
WholeFeePerByte(fee, serializedSize) == fee \div serializedSize

\* C13: once the fee rule has run, the free limit is applied exactly if the
\* fee per byte is below the minimum relay fee and the paid limit otherwise; a
\* warning is given exactly for a non-zero fee below the threshold; the
\* transaction is queued in every case, and is admitted or waits by the limit
\* of its tier.
C13_FeeTierLimit ==
    slotCheck.pc \in {"queued", "waiting", "admitted"} =>
        LET below == WholeFeePerByte(slotCheck.fee, slotCheck.serializedSize)
                         < TRANSACTION_RELAY_FEE_MIN
        IN  /\ below => slotCheck.maxMempoolSlots = FREE_TRANSACTIONS_PER_SENDER_MAX
            /\ ~below => slotCheck.maxMempoolSlots = TRANSACTIONS_PER_SENDER_MAX
            /\ slotCheck.warned <=> (slotCheck.fee # 0 /\ below)
            /\ slotCheck.pc = "admitted" => slotCheck.count < slotCheck.maxMempoolSlots
            /\ slotCheck.pc = "waiting" => slotCheck.count >= slotCheck.maxMempoolSlots

\* A transaction with a non-zero fee below the paid threshold was warned about,
\* queued under the free limit and admitted.
C13_Witness ==
    /\ slotCheck.pc = "admitted"
    /\ slotCheck.fee # 0
    /\ slotCheck.warned
    /\ slotCheck.maxMempoolSlots = FREE_TRANSACTIONS_PER_SENDER_MAX

\* ================================================ the Cashlink codec
\* Strings are sequences of Unicode code points when they are text (a
\* message) and sequences of one-character strings when they are base64 or a
\* URL; byte arrays are sequences of 0..255.

\* The byte length of a serialized private key (privateKey.serializedSize)
PRIVATE_KEY_SIZE == 32
\* NumberUtils.isUint8: the largest value of one unsigned byte
UINT8_MAX == 255
\* render breaks words of more than WORD_BREAK characters after every WORD_BREAK characters
WORD_BREAK == 256

\* A sequence of n copies of x
Repeat(x, n) == [i \in 1..n |-> x]

\* The concatenation of the sequences seqs[lo], ..., seqs[hi]
RECURSIVE Flatten(_, _, _)
Flatten(seqs, lo, hi) ==
    IF lo > hi THEN << >>
    ELSE IF lo = hi THEN seqs[lo]
    ELSE LET mid == (lo + hi) \div 2
         IN  Flatten(seqs, lo, mid) \o Flatten(seqs, mid + 1, hi)

\* U+FEFF, the byte order mark, and U+FFFD, the replacement character
BOM == 65279
REPLACEMENT == 65533

\* The UTF-8 encoding of one code point; a lone surrogate is encoded as U+FFFD.
Utf8OfCodePoint(c) ==
    LET cp == IF c \in 55296..57343 THEN REPLACEMENT ELSE c
    IN  IF cp < 128 THEN << cp >>
        ELSE IF cp < 2048 THEN << 192 + cp \div 64, 128 + (cp % 64) >>
        ELSE IF cp < 65536
             THEN << 224 + cp \div 4096, 128 + ((cp \div 64) % 64), 128 + (cp % 64) >>
        ELSE << 240 + cp \div 262144, 128 + ((cp \div 4096) % 64),
                128 + ((cp \div 64) % 64), 128 + (cp % 64) >>

\* Utf8Tools.stringToUtf8ByteArray / TextEncoder.encode
stringToUtf8ByteArray(str) ==
    Flatten([i \in 1..Len(str) |-> Utf8OfCodePoint(str[i])], 1, Len(str))

\* The code point whose UTF-8 encoding starts at position i of well-formed bytes
CodePointAt(bytes, i) ==
    LET b == bytes[i]
    IN  IF b < 128 THEN b
        ELSE IF b < 224 THEN (b - 192) * 64 + (bytes[i + 1] - 128)
        ELSE IF b < 240
             THEN (b - 224) * 4096 + (bytes[i + 1] - 128) * 64 + (bytes[i + 2] - 128)
        ELSE (b - 240) * 262144 + (bytes[i + 1] - 128) * 4096
             + (bytes[i + 2] - 128) * 64 + (bytes[i + 3] - 128)

\* Utf8Tools.utf8ByteArrayToString / TextDecoder.decode: one code point per
\* leading byte; a leading byte order mark is not part of the decoded string.
utf8ByteArrayToString(bytes) ==
    LET starts == SelectSeq([i \in 1..Len(bytes) |-> i],
                            LAMBDA i : bytes[i] \notin 128..191)
        str == [k \in 1..Len(starts) |-> CodePointAt(bytes, starts[k])]
    IN  IF Len(str) > 0 /\ str[1] = BOM THEN Tail(str) ELSE str

\* The base64url alphabet
BASE64URL ==
    << "A", "B", "C", "D", "E", "F", "G", "H", "I", "J", "K", "L", "M", "N", "O", "P",
       "Q", "R", "S", "T", "U", "V", "W", "X", "Y", "Z", "a", "b", "c", "d", "e", "f",
       "g", "h", "i", "j", "k", "l", "m", "n", "o", "p", "q", "r", "s", "t", "u", "v",
       "w", "x", "y", "z", "0", "1", "2", "3", "4", "5", "6", "7", "8", "9", "-", "_" >>

\* The character of a 6-bit value
Base64Char(v) == BASE64URL[v + 1]

\* The byte at position i, 0 past the end
ByteOrZero(buf, i) == IF i <= Len(buf) THEN buf[i] ELSE 0

\* BufferUtils.toBase64Url: three bytes become four characters; `.` pads the
\* last group.
toBase64Url(buf) ==
    [p \in 1..(4 * ((Len(buf) + 2) \div 3)) |->
        LET g == 3 * ((p - 1) \div 4)      \* bytes before the group
            k == (p - 1) % 4               \* position in the group
            b1 == ByteOrZero(buf, g + 1)
            b2 == ByteOrZero(buf, g + 2)
            b3 == ByteOrZero(buf, g + 3)
        IN  IF k = 0 THEN Base64Char(b1 \div 4)
            ELSE IF k = 1 THEN Base64Char((b1 % 4) * 16 + b2 \div 16)
            ELSE IF k = 2 THEN IF g + 2 > Len(buf) THEN "."
                               ELSE Base64Char((b2 % 16) * 4 + b3 \div 64)
            ELSE IF g + 3 > Len(buf) THEN "." ELSE Base64Char(b3 % 64)]

\* The 6-bit value of a base64url character
Base64Value == [c \in {BASE64URL[i] : i \in 1..64} |->
                    (CHOOSE i \in 1..64 : BASE64URL[i] = c) - 1]

\* A padding character: `.` in the URL flavour, `=` in plain base64
IsPadding(c) == c \in {".", "="}

\* The 6-bit value of the character at position i, 0 for padding
SextetAt(str, i) == IF IsPadding(str[i]) THEN 0 ELSE Base64Value[str[i]]

\* The number of padding characters at the end of a base64 string
PaddingOf(str) ==
    IF Len(str) >= 2 /\ IsPadding(str[Len(str) - 1]) THEN 2
    ELSE IF Len(str) >= 1 /\ IsPadding(str[Len(str)]) THEN 1 ELSE 0

\* BufferUtils.fromBase64Url: four characters become three bytes; a padded
\* last group becomes one or two bytes.
fromBase64Url(str) ==
    [p \in 1..(3 * (Len(str) \div 4) - PaddingOf(str)) |->
        LET g == 4 * ((p - 1) \div 3)
            k == (p - 1) % 3
            a == SextetAt(str, g + 1)
            b == SextetAt(str, g + 2)
            c == SextetAt(str, g + 3)
            d == SextetAt(str, g + 4)
        IN  IF k = 0 THEN a * 4 + b \div 16
            ELSE IF k = 1 THEN (b % 16) * 16 + c \div 4
            ELSE (c % 4) * 64 + d]

\* SerialBuffer.writeUint64: eight bytes, most significant first.  The values
\* of the model are below 2^31, so the upper four bytes are 0.
writeUint64(value) ==
    [i \in 1..8 |-> IF i <= 4 THEN 0
                    ELSE IF i = 5 THEN (value \div 16777216) % 256
                    ELSE IF i = 6 THEN (value \div 65536) % 256
                    ELSE IF i = 7 THEN (value \div 256) % 256
                    ELSE value % 256]

\* SerialBuffer.readUint64 at read position pos (0-based)
readUint64(buf, pos) ==
    LET RECURSIVE Horner(_, _)
        Horner(acc, i) == IF i > 8 THEN acc ELSE Horner(acc * 256 + buf[pos + i], i + 1)
    IN  Horner(0, 1)

\* KeyPair.derive(privateKey): the key pair of a private key
KeyPairDerive(privateKey) ==
    [privateKey |-> privateKey, publicKey |-> << "publicKey", privateKey >>]

\* CashlinkTheme.STANDARD
STANDARD == 1

\* CashlinkTheme.UNSPECIFIED
UNSPECIFIED == 0

\* NumberUtils.isUint8
isUint8(n) == n \in 0..UINT8_MAX

\* A message setter that limits the number of characters, not of bytes.
MessageFitsByCharacters(message) == isUint8(Len(message))

\* set message: NumberUtils.isUint8(messageBytes.byteLength)
MessageFits(message) == isUint8(Len(stringToUtf8ByteArray(message)))

\* What a call that throws evaluates to
Thrown == [thrown |-> TRUE]

\* new Cashlink(baseUrl, keyPair, value, message, theme): Thrown if a setter
\* throws. The theme argument is << >> when the caller omits it and << n >>
\* when the caller passes n; an omitted theme is UNSPECIFIED.
NewCashlink(baseUrl, keyPair, value, message, theme) ==
    LET themeOrDefault == IF theme = << >> THEN UNSPECIFIED ELSE theme[1]
    IN  IF ~MessageFits(message) \/ ~isUint8(themeOrDefault) THEN Thrown
        ELSE [baseUrl |-> baseUrl, keyPair |-> keyPair, value |-> value,
              messageBytes |-> stringToUtf8ByteArray(message), theme |-> themeOrDefault]

\* get message
MessageOf(cashlink) == utf8ByteArrayToString(cashlink.messageBytes)

\* [A-Za-z0-9_]
IsWordCharacter(c) == c \in DOMAIN Base64Value /\ c # "-"

\* match.replace(/.{256}/g, '$&~'): a `~` after every full 256 characters
BreakWord(word) ==
    [p \in 1..(Len(word) + Len(word) \div WORD_BREAK) |->
        IF p % (WORD_BREAK + 1) = 0 THEN "~" ELSE word[p - p \div (WORD_BREAK + 1)]]

\* result.replace(/[A-Za-z0-9_]{257,}/g, ...): every maximal run of more than
\* 256 word characters is broken, everything else is kept.
BreakLongWords(str) ==
    LET n == Len(str)
        stops == << 0 >> \o SelectSeq([i \in 1..n |-> i], LAMBDA i : ~IsWordCharacter(str[i]))
                 \o << n + 1 >>
        Piece(k) == LET word == SubSeq(str, stops[k] + 1, stops[k + 1] - 1)
                        broken == IF Len(word) > WORD_BREAK THEN BreakWord(word) ELSE word
                    IN  IF stops[k + 1] <= n THEN broken \o << str[stops[k + 1]] >> ELSE broken
    IN  Flatten([k \in 1..(Len(stops) - 1) |-> Piece(k)], 1, Len(stops) - 1)

\* A render that writes the length byte of every message.
HasLengthByteAlways(cashlink) == TRUE

\* this._messageBytes.byteLength || this._theme
HasLengthByte(cashlink) == Len(cashlink.messageBytes) # 0 \/ cashlink.theme # 0

\* The bytes render serializes: private key, value, then length byte and
\* message if there is a message or a theme, then the theme if there is one.
SerializeCashlink(cashlink) ==
    cashlink.keyPair.privateKey
    \o writeUint64(cashlink.value)
    \o (IF HasLengthByte(cashlink)
        THEN << Len(cashlink.messageBytes) >> \o cashlink.messageBytes ELSE << >>)
    \o (IF cashlink.theme # 0 THEN << cashlink.theme >> ELSE << >>)

\* result.replace(/\./g, '=')
DotsToEquals(str) == [i \in 1..Len(str) |-> IF str[i] = "." THEN "=" ELSE str[i]]

\* The fragment render puts behind the `#`
RenderFragment(cashlink) ==
    BreakLongWords(DotsToEquals(toBase64Url(SerializeCashlink(cashlink))))

\* Cashlink.render
render(cashlink) == cashlink.baseUrl \o << "#" >> \o RenderFragment(cashlink)

\* hash.replace(/~/g, '')
StripTildes(hash) == SelectSeq(hash, LAMBDA c : c # "~")

\* hash.replace(/=*$/, ...): the `=` at the end become `.`
TrailingEqualsToDots(hash) ==
    LET n == Len(hash)
        k == CHOOSE k \in 0..n :
                 /\ \A j \in (n - k + 1)..n : hash[j] = "="
                 /\ (k = n \/ hash[n - k] # "=")
    IN  [i \in 1..n |-> IF i > n - k THEN "." ELSE hash[i]]

\* Base64 decoding takes the string: only characters of the alphabet, padded
\* to whole groups.
IsBase64Url(str) ==
    /\ Len(str) % 4 = 0
    /\ \A i \in 1..Len(str) :
           \/ str[i] \in DOMAIN Base64Value
           \/ IsPadding(str[i]) /\ i > Len(str) - 2 /\ (i = Len(str) \/ IsPadding(str[i + 1]))

\* str.split('#'): the pieces before and after the first `#`
SplitAtHash(str) ==
    LET at == CHOOSE i \in 1..(Len(str) + 1) :
                  /\ (i = Len(str) + 1 \/ str[i] = "#")
                  /\ \A j \in 1..(i - 1) : str[j] # "#"
    IN  << SubSeq(str, 1, at - 1), SubSeq(str, at + 1, Len(str)) >>

\* Cashlink.parse: Thrown if decoding, a read past the end of the buffer or
\* the constructor throws.
parse(str) ==
    LET baseUrl == SplitAtHash(str)[1]
        hash == TrailingEqualsToDots(StripTildes(SplitAtHash(str)[2]))
    IN  IF ~IsBase64Url(hash) THEN Thrown
        ELSE
        LET buf == fromBase64Url(hash)
            byteLength == Len(buf)
        IN  IF byteLength < PRIVATE_KEY_SIZE + 8 THEN Thrown
            ELSE
            LET keyPair == KeyPairDerive(SubSeq(buf, 1, PRIVATE_KEY_SIZE))
                value == readUint64(buf, PRIVATE_KEY_SIZE)
                readPos == PRIVATE_KEY_SIZE + 8
                hasMessage == readPos # byteLength
                messageLength == IF hasMessage THEN buf[readPos + 1] ELSE 0
                afterMessage == IF hasMessage THEN readPos + 1 + messageLength ELSE readPos
            IN  IF afterMessage > byteLength THEN Thrown
                ELSE
                LET message == utf8ByteArrayToString(
                                   SubSeq(buf, readPos + 2, afterMessage))
                    theme == IF afterMessage < byteLength THEN << buf[afterMessage + 1] >>
                             ELSE << >>
                IN  NewCashlink(baseUrl, keyPair, value, message, theme)

\* ---------------------------------------------------------------------
\* The codec as a state machine: a cashlink is constructed, its message may
\* be set once more, it is rendered, the rendered string may be mangled in
\* transport, and the string is parsed.

\* Number of private keys the inputs are drawn from
NumKeys == 2

\* Largest value the inputs are drawn from
MaxValue == 100000

\* Length of a message that makes the rendered fragment longer than one line
LongMessage == 152

\* Number of 256-character boundaries a transport may break the fragment at
MaxBreaks == 2

\* The k-th private key; the first is all zero, which renders as one long word
PrivateKeyBytes(k) == [i \in 1..PRIVATE_KEY_SIZE |-> ((k - 1) * (7 * i + 244)) % 256]

\* The base URL the cashlinks are created with
BaseUrl == << "h", "u", "b", "/" >>

\* Values: zero, one that needs a second byte, and the largest
Values == {0, UINT8_MAX + 1, MaxValue}

\* Messages as sequences of code points: empty, ASCII, multi-byte (2, 3 and 4
\* bytes), with one and with two leading U+FEFF, long ones, and the ones
\* around the limit of 255 bytes.
Messages ==
    { << >>,
      << 97 >>,
      << 233, 8364, 128512 >>,
      << BOM, 97 >>,
      << BOM, BOM, 97 >>,
      Repeat(97, LongMessage),
      << BOM, BOM >> \o Repeat(97, LongMessage),
      Repeat(97, UINT8_MAX),
      Repeat(8364, UINT8_MAX \div 3),
      Repeat(97, UINT8_MAX + 1),
      Repeat(233, (UINT8_MAX + 1) \div 2),
      Repeat(97, UINT8_MAX - 1) \o << 233 >> }

\* Messages passed to the setter
SetterMessages ==
    { << >>, Repeat(97, UINT8_MAX), Repeat(97, UINT8_MAX - 1) \o << 233 >>,
      Repeat(233, (UINT8_MAX + 1) \div 2) }

\* Theme arguments: omitted, the unspecified theme, themes, and one too large
Themes == { << >>, << UNSPECIFIED >>, << STANDARD >>, << UINT8_MAX >>, << UINT8_MAX + 1 >> }

\* No cashlink yet
NoCashlink == [none |-> TRUE]

InitCodec ==
    /\ BroadcasterUnused
    /\ SlotCheckIdle
    /\ CsvFileIdle
    /\ CreationIdle
    /\ StatisticsIdle /\ HandlerIdle /\ WorkflowIdle
    /\ \E k \in 1..NumKeys, value \in Values, message \in Messages, theme \in Themes :
           codec = [pc |-> "start", key |-> k, value |-> value, message |-> message,
                    theme |-> theme, cashlink |-> NoCashlink, before |-> NoCashlink,
                    set |-> << >>, thrown |-> FALSE, str |-> << >>, mangled |-> FALSE,
                    parsed |-> NoCashlink]

\* new Cashlink(baseUrl, keyPair, value, message, theme)
Construct ==
    /\ codec.pc = "start"
    /\ LET cashlink == NewCashlink(BaseUrl, KeyPairDerive(PrivateKeyBytes(codec.key)),
                                   codec.value, codec.message, codec.theme)
       IN  codec' = [codec EXCEPT !.pc = IF cashlink = Thrown THEN "rejected"
                                         ELSE "constructed",
                                  !.cashlink = IF cashlink = Thrown THEN NoCashlink
                                               ELSE cashlink]
    /\ UNCHANGED exceptCodec

\* cashlink.message = message: throws before it assigns
SetMessage(message) ==
    /\ codec.pc = "constructed"
    /\ codec' = [codec EXCEPT
           !.pc = "set",
           !.before = codec.cashlink,
           !.set = << message >>,
           !.thrown = ~MessageFits(message),
           !.cashlink = IF MessageFits(message)
                        THEN [codec.cashlink EXCEPT
                                  !.messageBytes = stringToUtf8ByteArray(message)]
                        ELSE codec.cashlink]
    /\ UNCHANGED exceptCodec

\* cashlink.render()
Render ==
    /\ codec.pc \in {"constructed", "set"}
    /\ codec' = [codec EXCEPT !.pc = "rendered", !.str = render(codec.cashlink)]
    /\ UNCHANGED exceptCodec

\* The positions of the fragment a transport can break the line after
Boundaries(fragment) == {p \in 1..Len(fragment) : p % WORD_BREAK = 0}

\* The fragment with a `~` put behind each of the given positions
InsertTildes(fragment, at) ==
    Flatten([p \in 1..Len(fragment) |->
                IF p \in at THEN << fragment[p], "~" >> ELSE << fragment[p] >>],
            1, Len(fragment))

\* Transport puts `~` at 256-character boundaries of the fragment
Mangle(at) ==
    /\ codec.pc = "rendered"
    /\ at # {}
    /\ at \subseteq Boundaries(SplitAtHash(codec.str)[2])
    /\ codec' = [codec EXCEPT
           !.pc = "mangled",
           !.mangled = TRUE,
           !.str = SplitAtHash(codec.str)[1] \o << "#" >>
                   \o InsertTildes(SplitAtHash(codec.str)[2], at)]
    /\ UNCHANGED exceptCodec

\* Cashlink.parse(str)
Parse ==
    /\ codec.pc \in {"rendered", "mangled"}
    /\ codec' = [codec EXCEPT !.pc = "parsed", !.parsed = parse(codec.str)]
    /\ UNCHANGED exceptCodec

NextCodec ==
    \/ Construct
    \/ \E message \in SetterMessages : SetMessage(message)
    \/ Render
    \/ \E at \in SUBSET {k * WORD_BREAK : k \in 1..MaxBreaks} : Mangle(at)
    \/ Parse

SpecCodec == InitCodec /\ [][NextCodec]_vars

\* ---------------------------------------------------------------------
\* The codec's claims

\* Two cashlinks with the same key pair, value, message and theme
SameCashlink(a, b) ==
    /\ a.keyPair = b.keyPair
    /\ a.value = b.value
    /\ MessageOf(a) = MessageOf(b)
    /\ a.theme = b.theme

\* C14: parsing what a valid cashlink renders to yields a cashlink with the
\* same key pair, value, message and theme.
C14_RoundTrip ==
    codec.pc = "parsed" /\ ~codec.mangled
        => codec.parsed # Thrown /\ SameCashlink(codec.parsed, codec.cashlink)

\* C15: a rendered cashlink whose fragment got `~` inserted at 256-character
\* boundaries still parses to the original key pair, value, message and theme.
C15_MangledRoundTrip ==
    codec.pc = "parsed" /\ codec.mangled
        => codec.parsed # Thrown /\ SameCashlink(codec.parsed, codec.cashlink)

\* messageBytes.byteLength of a message
Utf8Length(message) == Len(stringToUtf8ByteArray(message))

\* C16: a message of 255 UTF-8 bytes is accepted by the constructor and by the
\* setter and is rendered and parsed; a message of 256 bytes is rejected by
\* both, and a rejected set leaves message, theme, value and key pair as they
\* were.
C16_MessageLimit ==
    /\ codec.pc # "start" /\ Utf8Length(codec.message) > UINT8_MAX
           => codec.pc = "rejected"
    /\ codec.pc # "start" /\ Utf8Length(codec.message) <= UINT8_MAX
       /\ (codec.theme = << >> \/ isUint8(codec.theme[1]))
           => codec.pc # "rejected"
    /\ codec.set # << >> =>
           /\ codec.thrown <=> Utf8Length(codec.set[1]) > UINT8_MAX
           /\ codec.thrown => codec.cashlink = codec.before
           /\ ~codec.thrown =>
                  /\ codec.cashlink.messageBytes = stringToUtf8ByteArray(codec.set[1])
                  /\ codec.cashlink.keyPair = codec.before.keyPair
                  /\ codec.cashlink.value = codec.before.value
                  /\ codec.cashlink.theme = codec.before.theme
    /\ codec.pc = "parsed" /\ Len(codec.cashlink.messageBytes) = UINT8_MAX
           => /\ codec.parsed # Thrown
              /\ codec.parsed.messageBytes = codec.cashlink.messageBytes

\* C16 witness: a cashlink constructed with a message of 255 bytes refuses a
\* message of 256 bytes and keeps the one it had.
C16_Witness ==
    /\ codec.pc = "set"
    /\ codec.thrown
    /\ Utf8Length(codec.set[1]) = UINT8_MAX + 1
    /\ Len(codec.before.messageBytes) = UINT8_MAX
    /\ codec.cashlink = codec.before

\* The rendering of a key pair and a value alone: no length byte, no theme byte
RenderBare(baseUrl, keyPair, value) ==
    baseUrl \o << "#" >>
    \o BreakLongWords(DotsToEquals(toBase64Url(keyPair.privateKey \o writeUint64(value))))

\* C17: with an empty message, a cashlink created with theme 0 and one created
\* without a theme render to the same string, the rendering of key and value
\* alone, and that string parses to theme 0.
C17_UnspecifiedThemeRendersBare ==
    /\ codec.pc \in {"rendered", "parsed"}
    /\ codec.cashlink.messageBytes = << >>
    /\ codec.theme \in {<< >>, << 0 >>}
    => /\ codec.str = RenderBare(BaseUrl, codec.cashlink.keyPair, codec.cashlink.value)
       /\ Len(fromBase64Url(TrailingEqualsToDots(SplitAtHash(codec.str)[2])))
              = PRIVATE_KEY_SIZE + 8
       /\ codec.pc = "parsed" => codec.parsed # Thrown /\ codec.parsed.theme = 0

\* C17 witness: a cashlink created without a theme and with an empty message
\* has been rendered and parsed.
C17_Witness ==
    /\ codec.pc = "parsed"
    /\ codec.theme = << >>
    /\ codec.message = << >>
    /\ codec.cashlink.messageBytes = << >>
    /\ codec.parsed # Thrown
    /\ codec.parsed.theme = 0

\* ---------------------------------------------------------------------
\* The CSV file: exportCashlinks writes one line per token of a batch,
\* importCashlinks reads the lines back. There are two implementations, the
\* one of file-handler.ts ("ts") and the older one ("js"). The base URL the
\* tool is configured with already ends in /cashlink/, so the exporter's and
\* the importer's normalisation of the base leaves it as it is.

\* Number of tokens the batches are drawn from
NumTokens == 3

\* The tokens
Tokens == 1..NumTokens

\* Messages of the exported batches: empty, ASCII, multi-byte and a long one
CsvMessages == { << >>, << 97 >>, << 233, 8364, 128512 >>, Repeat(97, LongMessage) }

\* Themes of the exported batches: omitted and two themes
CsvThemes == { << >>, << STANDARD >>, << UINT8_MAX >> }

\* The batch createCashlinks returns for the tokens: one key per token, and
\* the same value, message and theme for all
BatchOf(tokens, value, message, theme) ==
    [token \in tokens |->
        NewCashlink(BaseUrl, KeyPairDerive(PrivateKeyBytes(token)), value, message, theme)]

\* exportCashlinks: the columns of the line of one token
exportCashlinks(cashlinks) ==
    [token \in DOMAIN cashlinks |->
        [token |-> token,
         shortLink |-> << >>,
         imageFile |-> << >>,
         cashlinkUrl |-> render(cashlinks[token]),
         privateKeyBase64 |-> toBase64Url(cashlinks[token].keyPair.privateKey)]]

\* importCashlinks of file-handler.ts for one line: the key pair comes from
\* the privateKeyBase64 column; the URL's fragment is decoded as it stands;
\* value and message are read from it; the cashlink is created without a
\* theme.
ImportLine(line) ==
    LET hashPart == SplitAtHash(line.cashlinkUrl)[2]
    IN  IF ~IsBase64Url(line.privateKeyBase64) \/ ~IsBase64Url(hashPart) THEN Thrown
        ELSE
        LET keyPair == KeyPairDerive(fromBase64Url(line.privateKeyBase64))
            buf == fromBase64Url(hashPart)
            readPos == PRIVATE_KEY_SIZE + 8
        IN  IF Len(buf) < readPos THEN Thrown
            ELSE
            LET value == readUint64(buf, PRIVATE_KEY_SIZE)
                hasMessage == readPos < Len(buf)
                messageLength == IF hasMessage THEN buf[readPos + 1] ELSE 0
            IN  IF hasMessage /\ readPos + 1 + messageLength > Len(buf) THEN Thrown
                ELSE NewCashlink(SplitAtHash(line.cashlinkUrl)[1], keyPair, value,
                         utf8ByteArrayToString(
                             SubSeq(buf, readPos + 2, readPos + 1 + messageLength)),
                         << >>)

\* importCashlinks of file-handler.ts: throws if a line cannot be read
importCashlinks(lines) ==
    IF \E token \in DOMAIN lines : ImportLine(lines[token]) = Thrown THEN Thrown
    ELSE [cashlinks |-> [token \in DOMAIN lines |-> ImportLine(lines[token])]]

\* importCashlinks of the older implementation: Cashlink.parse of the fourth
\* column
importCashlinksJs(lines) ==
    IF \E token \in DOMAIN lines : parse(lines[token].cashlinkUrl) = Thrown THEN Thrown
    ELSE [cashlinks |-> [token \in DOMAIN lines |-> parse(lines[token].cashlinkUrl)]]

InitCsv ==
    /\ BroadcasterUnused
    /\ SlotCheckIdle
    /\ CodecIdle
    /\ CreationIdle
    /\ StatisticsIdle /\ HandlerIdle /\ WorkflowIdle
    /\ \E tokens \in SUBSET Tokens \ {{}}, value \in {0, MaxValue},
          message \in CsvMessages, theme \in CsvThemes :
           csvFile = [pc |-> "batch",
                      cashlinks |-> BatchOf(tokens, value, message, theme),
                      lines |-> << >>, reader |-> "none", imported |-> NoCashlink]

\* exportCashlinks(cashlinks, shortLinks, imageFiles, file)
Export ==
    /\ csvFile.pc = "batch"
    /\ csvFile' = [csvFile EXCEPT !.pc = "exported",
                                  !.lines = exportCashlinks(csvFile.cashlinks)]
    /\ UNCHANGED exceptCsvFile

\* importCashlinks(file) of file-handler.ts
Import ==
    /\ csvFile.pc = "exported"
    /\ csvFile' = [csvFile EXCEPT !.pc = "imported", !.reader = "ts",
                                  !.imported = importCashlinks(csvFile.lines)]
    /\ UNCHANGED exceptCsvFile

\* importCashlinks(file) of the older implementation
ImportJs ==
    /\ csvFile.pc = "exported"
    /\ csvFile' = [csvFile EXCEPT !.pc = "imported", !.reader = "js",
                                  !.imported = importCashlinksJs(csvFile.lines)]
    /\ UNCHANGED exceptCsvFile

NextCsv == Export \/ Import \/ ImportJs

SpecCsv == InitCsv /\ [][NextCsv]_vars

\* C18: a batch that was exported and imported again holds, for every token,
\* a cashlink with the same key pair, value, message and theme.
C18_ImportReconstructsBatch ==
    csvFile.pc = "imported" =>
        /\ csvFile.imported # Thrown
        /\ DOMAIN csvFile.imported.cashlinks = DOMAIN csvFile.cashlinks
        /\ \A token \in DOMAIN csvFile.cashlinks :
               SameCashlink(csvFile.imported.cashlinks[token], csvFile.cashlinks[token])

\* ---------------------------------------------------------------------
\* createCashlinks: tokens are drawn at random until the batch has the
\* requested size; each token's key is derived from the token and the secret
\* salt. Two runs of the tool follow one another, so that what one run derives
\* can be compared with what the other derives.

\* Config.TOKEN_LENGTH: length of a token in characters
TOKEN_LENGTH == 6

\* Largest batch size requested
MaxCount == 2

\* Number of loop iterations beyond the batch size a run may need because it
\* drew tokens it already had
MaxRetries == 1

\* The runs of the tool
Runs == {1, 2}

\* Math.ceil(tokenEntropy / 8): the number of random bytes of one draw
RandomLength == (TOKEN_LENGTH * 6 + 7) \div 8

\* What crypto.randomBytes may return: all zero; a second draw of the same
\* token (it differs in bits the token does not take); a token that differs in
\* its last character only; and another one
RandomDraws ==
    { [i \in 1..RandomLength |-> 0],
      [i \in 1..RandomLength |-> IF i = RandomLength THEN 1 ELSE 0],
      [i \in 1..RandomLength |-> IF i = RandomLength THEN 16 ELSE 0],
      [i \in 1..RandomLength |-> i] }

\* The secret salts
Salts == { << 7 >>, << 9 >> }

\* BufferUtils.toBase64Url(randomBytes).substring(0, tokenLength)
TokenOf(randomBytes) == SubSeq(toBase64Url(randomBytes), 1, TOKEN_LENGTH)

\* BufferUtils.fromBase64Url(token): the whole bytes of a token, which comes
\* without padding
TokenBytes(token) == fromBase64Url(token \o Repeat(".", (4 - (Len(token) % 4)) % 4))

\* Hash.computeBlake2b, taken as collision free: the hash stands for its input
Hash(bytes) == << "blake2b", bytes >>

\* A derivation that also hashes the number of tokens the batch already has.
PrivateKeyOfPosition(token, run) ==
    Hash(TokenBytes(token) \o run.secretSalt \o << Len(run.order) >>)

\* The private key createCashlinks derives for a token in a run
PrivateKeyOf(token, run) == Hash(TokenBytes(token) \o run.secretSalt)

\* A loop that counts its iterations.
LoopContinuesByDraws(run) == run.draws < run.count

\* cashlinks.size < cashlinkCount
LoopContinues(run) == Len(run.order) < run.count

\* cashlinks.has(token)
Has(run, token) == token \in DOMAIN run.cashlinks

\* The arguments of a run and its empty batch
NewRun(count, value, message, theme, secretSalt) ==
    [pc |-> "loop", count |-> count, value |-> value, message |-> message,
     theme |-> theme, secretSalt |-> secretSalt,
     order |-> << >>, cashlinks |-> << >>, draws |-> 0, last |-> "none"]

InitCreate ==
    /\ BroadcasterUnused
    /\ SlotCheckIdle
    /\ CodecIdle
    /\ CsvFileIdle
    /\ StatisticsIdle /\ HandlerIdle /\ WorkflowIdle
    /\ \E counts \in [Runs -> 0..MaxCount], salts \in [Runs -> Salts],
          swap \in BOOLEAN :
           creation = [r \in Runs |->
               IF (r = 1) = swap
               THEN NewRun(counts[r], 0, << >>, << >>, salts[r])
               ELSE NewRun(counts[r], MaxValue, << 97 >>, << STANDARD >>, salts[r])]

\* A run is at its turn when every run before it has returned
AtTurn(r) == \A q \in Runs : q < r => creation[q].pc = "returned"

\* One iteration of the loop that draws a token the batch already has: continue
DrawDuplicate(r, randomBytes) ==
    LET run == creation[r]
        token == TokenOf(randomBytes)
    IN  /\ AtTurn(r)
        /\ run.pc = "loop"
        /\ LoopContinues(run)
        /\ Has(run, token)
        /\ run.draws < run.count + MaxRetries
        /\ creation' = [creation EXCEPT ![r] =
               [run EXCEPT !.draws = run.draws + 1, !.last = "discarded"]]
        /\ UNCHANGED exceptCreation

\* One iteration of the loop that draws a new token: derive the key and set
\* the batch's entry
DrawNew(r, randomBytes) ==
    LET run == creation[r]
        token == TokenOf(randomBytes)
        keyPair == KeyPairDerive(PrivateKeyOf(token, run))
    IN  /\ AtTurn(r)
        /\ run.pc = "loop"
        /\ LoopContinues(run)
        /\ ~Has(run, token)
        /\ creation' = [creation EXCEPT ![r] =
               [run EXCEPT
                   !.draws = run.draws + 1,
                   !.last = "added",
                   !.order = Append(run.order, token),
                   !.cashlinks = MapSet(run.cashlinks, token,
                       NewCashlink(BaseUrl, keyPair, run.value, run.message, run.theme))]]
        /\ UNCHANGED exceptCreation

\* The loop ends and the batch is returned
ReturnCashlinks(r) ==
    LET run == creation[r]
    IN  /\ AtTurn(r)
        /\ run.pc = "loop"
        /\ ~LoopContinues(run)
        /\ creation' = [creation EXCEPT ![r] = [run EXCEPT !.pc = "returned"]]
        /\ UNCHANGED exceptCreation

NextCreate ==
    \E r \in Runs :
        \/ \E randomBytes \in RandomDraws : DrawDuplicate(r, randomBytes)
        \/ \E randomBytes \in RandomDraws : DrawNew(r, randomBytes)
        \/ ReturnCashlinks(r)

SpecCreate == InitCreate /\ [][NextCreate]_vars

\* C19: the returned batch has exactly count entries with pairwise distinct
\* tokens, and an iteration that draws a token of the batch leaves the batch
\* as it is.
C19_ExactlyCountDistinctTokens ==
    \A r \in Runs :
        LET run == creation[r]
        IN  /\ run.pc = "returned" =>
                /\ Len(run.order) = run.count
                /\ Cardinality(DOMAIN run.cashlinks) = run.count
            /\ DOMAIN run.cashlinks = {run.order[i] : i \in 1..Len(run.order)}
            /\ \A i, j \in 1..Len(run.order) : run.order[i] = run.order[j] => i = j
            /\ Len(run.order) <= run.count

\* C19: an iteration that draws a token the batch already has changes neither
\* the batch's entries nor their order, and no iteration changes or removes an
\* entry the batch has.
C19_DuplicateDiscarded ==
    [][\A r \in Runs :
          /\ \A token \in DOMAIN creation[r].cashlinks :
                 /\ token \in DOMAIN creation'[r].cashlinks
                 /\ creation'[r].cashlinks[token] = creation[r].cashlinks[token]
          /\ creation'[r].draws # creation[r].draws /\ creation'[r].last = "discarded"
                 => /\ creation'[r].cashlinks = creation[r].cashlinks
                    /\ creation'[r].order = creation[r].order]_vars

\* C19: createCashlinks returns exactly count pairwise distinct tokens, and a
\* drawn token that the batch already has is discarded without changing the
\* batch.
C19_CreatesCountDistinctTokens ==
    []C19_ExactlyCountDistinctTokens /\ C19_DuplicateDiscarded

\* C19 witness: a run that drew a token twice has returned a batch of two
\* tokens.
C19_Witness ==
    \E r \in Runs :
        /\ creation[r].pc = "returned"
        /\ creation[r].count = MaxCount
        /\ creation[r].draws > creation[r].count
        /\ Len(creation[r].order) = MaxCount

\* C20: a token that two runs with the same salt have both drawn has the same
\* key pair in both batches, whatever the runs' values, messages, themes,
\* other tokens and order of drawing.
C20_KeyIsFunctionOfTokenAndSalt ==
    \A r, q \in Runs :
        creation[r].secretSalt = creation[q].secretSalt =>
            \A token \in DOMAIN creation[r].cashlinks \cap DOMAIN creation[q].cashlinks :
                creation[r].cashlinks[token].keyPair = creation[q].cashlinks[token].keyPair

\* C20 witness: two runs with the same salt and different values, messages
\* and themes hold the same token at different positions of their batches.
C20_Witness ==
    /\ creation[1].secretSalt = creation[2].secretSalt
    /\ creation[1].value # creation[2].value
    /\ \E i \in 1..Len(creation[1].order), j \in 1..Len(creation[2].order) :
           /\ i # j
           /\ creation[1].order[i] = creation[2].order[j]
           /\ creation[1].order # creation[2].order

\* ---------------------------------------------------------------------
\* createStatistics: one history fetch per cashlink is issued in map order;
\* the fetches complete in any order, and each completion scans the
\* cashlink's transactions and adds to the shared counts and maps.

\* Number of cashlinks of the batch the statistics are made for
NumStatCashlinks == 3

\* Latest timestamp of a transaction
MaxTime == 3

\* Length of a day in the unit of the timestamps
DayLength == 2

\* The cashlinks of the batch, in map order
StatCashlinks == 1..NumStatCashlinks

\* cashlink.address.toUserFriendlyAddress()
AddressOf(c) == [cashlink |-> c]

\* The address the batch owner reclaims to, and no address (null)
ReclaimAddress == [owner |-> "reclaim"]
NoAddress == [none |-> TRUE]

\* Addresses of users
UserX == [user |-> "X"]
UserY == [user |-> "Y"]

\* A transaction of the history: its recipient and its timestamp
TxTo(toAddress, timestamp) == [toAddress |-> toAddress, timestamp |-> timestamp]

\* The histories the node may hold for cashlink c: none; funded; funded and
\* claimed by X early; funded and claimed by X late; funded and reclaimed;
\* funded twice, claimed by Y and X and reclaimed
HistoriesOf(c) ==
    { << >>,
      << TxTo(AddressOf(c), 1) >>,
      << TxTo(AddressOf(c), 1), TxTo(UserX, 1) >>,
      << TxTo(AddressOf(c), 1), TxTo(UserX, MaxTime) >>,
      << TxTo(AddressOf(c), 1), TxTo(ReclaimAddress, MaxTime) >>,
      << TxTo(AddressOf(c), 1), TxTo(AddressOf(c), 1), TxTo(UserY, 1),
         TxTo(UserX, 1), TxTo(ReclaimAddress, MaxTime) >> }

\* dateFormatter.formatToParts(timestamp * 1000): the day of a timestamp in
\* the time zone, which is given by its offset
DateOf(timestamp, timeZone) == (timestamp + timeZone) \div DayLength

\* map.get(key) || fallback
GetOr(map, key, fallback) == IF key \in DOMAIN map THEN map[key] ELSE fallback

\* The body of the loop over a cashlink's transactions. acc holds wasFunded,
\* wasUserClaimed, wasReclaimed and the two shared maps.
ScanTransaction(acc, tx, own, reclaim, timeZone) ==
    IF tx.toAddress = own THEN [acc EXCEPT !.wasFunded = TRUE]
    ELSE IF tx.toAddress = reclaim THEN [acc EXCEPT !.wasReclaimed = TRUE]
    ELSE
    LET previousAddressClaims == GetOr(acc.claimsPerAddress, tx.toAddress, 0)
        date == DateOf(tx.timestamp, timeZone)
        previous == GetOr(acc.claimsPerDate, date, << 0, 0 >>)
    IN  [acc EXCEPT
            !.wasUserClaimed = TRUE,
            !.claimsPerAddress = MapSet(acc.claimsPerAddress, tx.toAddress,
                                        previousAddressClaims + 1),
            !.claimsPerDate = MapSet(acc.claimsPerDate, date,
                << previous[1] + 1,
                   previous[2] + (IF previousAddressClaims = 0 THEN 1 ELSE 0) >>)]

\* A scan that looks at the first transaction only.
ScanFirstTransaction(acc, txs, i, own, reclaim, timeZone) ==
    IF i > Len(txs) \/ i > 1 THEN acc
    ELSE ScanTransaction(acc, txs[i], own, reclaim, timeZone)

\* for (const {toAddress, timestamp} of transactionObjects): every
\* transaction from the i-th on is scanned
RECURSIVE ScanTransactions(_, _, _, _, _, _)
ScanTransactions(acc, txs, i, own, reclaim, timeZone) ==
    IF i > Len(txs) THEN acc
    ELSE ScanTransactions(ScanTransaction(acc, txs[i], own, reclaim, timeZone),
                          txs, i + 1, own, reclaim, timeZone)

\* The callback of one completed fetch, applied to the shared counts st
ProcessHistory(st, c, txs) ==
    LET acc == ScanTransactions(
                   [wasFunded |-> FALSE, wasUserClaimed |-> FALSE, wasReclaimed |-> FALSE,
                    claimsPerAddress |-> st.claimsPerAddress,
                    claimsPerDate |-> st.claimsPerDate],
                   txs, 1, AddressOf(c), st.reclaim, st.timeZone)
    IN  [st EXCEPT
            !.processed = st.processed + 1,
            !.funded = st.funded + (IF acc.wasFunded THEN 1 ELSE 0),
            !.userClaimed = st.userClaimed + (IF acc.wasUserClaimed THEN 1 ELSE 0),
            !.reclaimed = st.reclaimed + (IF acc.wasReclaimed THEN 1 ELSE 0),
            !.unclaimed = st.unclaimed
                + (IF acc.wasFunded /\ ~acc.wasUserClaimed /\ ~acc.wasReclaimed
                   THEN 1 ELSE 0),
            !.claimsPerAddress = acc.claimsPerAddress,
            !.claimsPerDate = acc.claimsPerDate,
            !.pending = st.pending \ {c}]

\* The figures of the report
ReportOf(st) ==
    [total |-> NumStatCashlinks,
     funded |-> st.funded,
     userClaimed |-> st.userClaimed,
     unclaimed |-> st.unclaimed,
     reclaimed |-> st.reclaimed,
     distinctClaimers |-> Cardinality(DOMAIN st.claimsPerAddress),
     repeatClaimers |-> Cardinality({a \in DOMAIN st.claimsPerAddress :
                                        st.claimsPerAddress[a] > 1}),
     claimsPerAddress |-> st.claimsPerAddress,
     claimsPerDate |-> st.claimsPerDate]

\* The state of createStatistics before its loop
NewStatistics(histories, reclaim, timeZone) ==
    [pc |-> "loop", histories |-> histories, reclaim |-> reclaim, timeZone |-> timeZone,
     next |-> 1, pending |-> {}, order |-> << >>,
     processed |-> 0, funded |-> 0, userClaimed |-> 0, reclaimed |-> 0, unclaimed |-> 0,
     claimsPerAddress |-> << >>, claimsPerDate |-> << >>, report |-> NoAddress]

InitStatistics ==
    /\ BroadcasterUnused
    /\ SlotCheckIdle /\ CodecIdle /\ CsvFileIdle /\ CreationIdle
    /\ HandlerIdle /\ WorkflowIdle
    /\ \E histories \in [StatCashlinks -> UNION {HistoriesOf(c) : c \in StatCashlinks}],
          reclaim \in {ReclaimAddress, NoAddress}, timeZone \in {0, 1} :
           /\ \A c \in StatCashlinks : histories[c] \in HistoriesOf(c)
           /\ statistics = NewStatistics(histories, reclaim, timeZone)

\* rpcClient.getTransactionsByAddress(cashlinkAddress) for the next cashlink
IssueFetch ==
    /\ statistics.pc = "loop"
    /\ statistics.next <= NumStatCashlinks
    /\ statistics' = [statistics EXCEPT !.next = statistics.next + 1,
                                        !.pending = statistics.pending \cup {statistics.next}]
    /\ UNCHANGED exceptStatistics

\* The fetch of cashlink c completes and its callback runs
CompleteFetch(c) ==
    /\ statistics.pc = "loop"
    /\ c \in statistics.pending
    /\ statistics' = [ProcessHistory(statistics, c, statistics.histories[c])
                          EXCEPT !.order = Append(statistics.order, c)]
    /\ UNCHANGED exceptStatistics

\* await Promise.all(pendingPromises), then the report is made
Report ==
    /\ statistics.pc = "loop"
    /\ statistics.next > NumStatCashlinks
    /\ statistics.pending = {}
    /\ statistics' = [statistics EXCEPT !.pc = "done", !.report = ReportOf(statistics)]
    /\ UNCHANGED exceptStatistics

NextStatistics ==
    \/ IssueFetch
    \/ \E c \in StatCashlinks : CompleteFetch(c)
    \/ Report

SpecStatistics == InitStatistics /\ [][NextStatistics]_vars

\* Some transaction of cashlink c in the histories goes to an address of the set
SomeRecipientIn(histories, c, addresses) ==
    \E i \in 1..Len(histories[c]) : histories[c][i].toAddress \in addresses

\* Some transaction of cashlink c goes to an address outside the set
SomeRecipientNotIn(histories, c, addresses) ==
    \E i \in 1..Len(histories[c]) : histories[c][i].toAddress \notin addresses

RECURSIVE AfterCompletions(_, _, _)
AfterCompletions(st, order, n) ==
    IF n = 0 THEN st
    ELSE LET before == AfterCompletions(st, order, n - 1)
         IN  ProcessHistory(before, order[n], st.histories[order[n]])

\* The report when the fetches complete in map order
ReportInMapOrder(histories, reclaim, timeZone) ==
    ReportOf(AfterCompletions(NewStatistics(histories, reclaim, timeZone),
                              [c \in StatCashlinks |-> c], NumStatCashlinks))

\* C22: whatever the order in which the fetches complete, the report has the
\* counts, the claims per address and the claims per day, first-time claimers
\* included, that it has when they complete in map order.
C22_ReportIndependentOfOrder ==
    statistics.pc = "done" =>
        statistics.report
            = ReportInMapOrder(statistics.histories, statistics.reclaim, statistics.timeZone)

\* ---------------------------------------------------------------------
\* wizardFundCashlinks: the fee is chosen, the funding address's balance is
\* queried and compared with what the batch needs, the user confirms, and
\* fundCashlinks sends one funding transaction per cashlink.

\* Largest number of cashlinks of a batch that is funded or claimed
NumHandled == 3

\* Largest value of a cashlink that is funded, and largest balance of one that
\* is claimed
MaxAmount == 2

\* Size in bytes of a funding transaction: extended transaction and cashlink
\* extra data
FUNDING_TX_SIZE == 171

\* minimumNonFreeFee
MinimumNonFreeFee == FUNDING_TX_SIZE * TRANSACTION_RELAY_FEE_MIN

\* [...cashlinks.values()].reduce((sum, cashlink) => sum + cashlink.value, 0)
RECURSIVE SumOfValues(_)
SumOfValues(values) ==
    IF values = << >> THEN 0 ELSE Head(values) + SumOfValues(Tail(values))

\* A required balance that leaves out the fees.
RequiredBalanceWithoutFees(values, fee) == SumOfValues(values)

\* requiredBalance: the cashlinks' values and the total fees
RequiredBalance(values, fee) == SumOfValues(values) + Len(values) * fee

\* The balances the funding address may have: nothing, and the amounts around
\* the total value and around the required balance
FundingBalances(values, fee) ==
    {0, SumOfValues(values), SumOfValues(values) + Len(values) * fee}
    \cup {b - 1 : b \in {SumOfValues(values), SumOfValues(values) + Len(values) * fee} \ {0}}

InitFund ==
    /\ BroadcasterUnused
    /\ SlotCheckIdle /\ CodecIdle /\ CsvFileIdle /\ CreationIdle
    /\ StatisticsIdle /\ WorkflowIdle
    /\ \E n \in 1..NumHandled, value \in 1..MaxAmount, fee \in {0, MinimumNonFreeFee} :
       \E balance \in FundingBalances(Repeat(value, n), fee) :
           handler = [pc |-> "start", values |-> Repeat(value, n), fee |-> fee,
                      balance |-> balance, sent |-> << >>]

\* rpcClient.getBalance(address) and the comparison with the required balance:
\* throws 'Not enough balance.'
CheckBalance ==
    /\ handler.pc = "start"
    /\ handler' = [handler EXCEPT !.pc =
           IF handler.balance < RequiredBalance(handler.values, handler.fee)
           THEN "failed" ELSE "confirm"]
    /\ UNCHANGED exceptHandler

\* prompt('Ok? [y/N]: '): anything but y returns without funding
ConfirmFunding(answer) ==
    /\ handler.pc = "confirm"
    /\ handler' = [handler EXCEPT !.pc = IF answer = "y" THEN "funding" ELSE "declined"]
    /\ UNCHANGED exceptHandler

\* fundCashlinks: the funding transaction of the next cashlink is handed to
\* broadcastTransaction (to sendTransaction in the newer handler)
SendFunding ==
    /\ handler.pc = "funding"
    /\ Len(handler.sent) < Len(handler.values)
    /\ handler' = [handler EXCEPT !.sent = Append(handler.sent,
           [recipient |-> AddressOf(Len(handler.sent) + 1),
            value |-> handler.values[Len(handler.sent) + 1],
            fee |-> handler.fee, data |-> "FUNDING"])]
    /\ UNCHANGED exceptHandler

\* fundCashlinks returns
FundingDone ==
    /\ handler.pc = "funding"
    /\ Len(handler.sent) = Len(handler.values)
    /\ handler' = [handler EXCEPT !.pc = "funded"]
    /\ UNCHANGED exceptHandler

NextFund ==
    \/ CheckBalance
    \/ \E answer \in {"y", "n"} : ConfirmFunding(answer)
    \/ SendFunding
    \/ FundingDone

SpecFund == InitFund /\ [][NextFund]_vars

\* C23: with a balance below the cashlinks' values plus the total fees the
\* funding fails, and no funding transaction is sent.
C23_NoFundingWithoutBalance ==
    handler.balance < SumOfValues(handler.values) + Len(handler.values) * handler.fee
        => /\ handler.pc \in {"start", "failed"}
           /\ handler.sent = << >>

\* C23 witness: the funding failed with a balance that covers the values but
\* not the fees.
C23_Witness ==
    /\ handler.pc = "failed"
    /\ handler.fee > 0
    /\ handler.balance >= SumOfValues(handler.values)
    /\ handler.sent = << >>

\* ---------------------------------------------------------------------
\* claimCashlinks: for each cashlink in map order the balance is queried and,
\* if there is one, a claiming transaction is sent.

\* A check that takes every cashlink as unclaimed.
IsUnclaimedAlways(cashlinkBalance) == TRUE

\* if (cashlinkBalance > 0)
IsUnclaimed(cashlinkBalance) == cashlinkBalance > 0

\* The claiming transaction of cashlink c
ClaimingTransaction(c, recipient, cashlinkBalance) ==
    [sender |-> AddressOf(c), signedWith |-> KeyPairDerive(PrivateKeyBytes(c)),
     recipient |-> recipient, value |-> cashlinkBalance, fee |-> 0, data |-> "CLAIMING"]

InitClaim ==
    /\ BroadcasterUnused
    /\ SlotCheckIdle /\ CodecIdle /\ CsvFileIdle /\ CreationIdle
    /\ StatisticsIdle /\ WorkflowIdle
    /\ \E balances \in [1..NumHandled -> 0..MaxAmount], recipient \in {UserX, ReclaimAddress} :
           handler = [pc |-> "loop", balances |-> balances, recipient |-> recipient,
                      processed |-> 0, cashlinkBalance |-> 0, sent |-> << >>]

\* processed++ and rpcClient.getBalance(cashlink.address) for the next cashlink
QueryBalance ==
    /\ handler.pc = "loop"
    /\ handler.processed < NumHandled
    /\ handler' = [handler EXCEPT !.pc = "queried",
                                  !.processed = handler.processed + 1,
                                  !.cashlinkBalance = handler.balances[handler.processed + 1]]
    /\ UNCHANGED exceptHandler

\* The claiming transaction is sent if the cashlink has a balance
ClaimOrSkip ==
    /\ handler.pc = "queried"
    /\ handler' = [handler EXCEPT
           !.pc = "loop",
           !.sent = IF IsUnclaimed(handler.cashlinkBalance)
                    THEN Append(handler.sent,
                             ClaimingTransaction(handler.processed, handler.recipient,
                                                 handler.cashlinkBalance))
                    ELSE handler.sent]
    /\ UNCHANGED exceptHandler

\* claimCashlinks returns
ClaimingDone ==
    /\ handler.pc = "loop"
    /\ handler.processed = NumHandled
    /\ handler' = [handler EXCEPT !.pc = "claimed"]
    /\ UNCHANGED exceptHandler

NextClaim == QueryBalance \/ ClaimOrSkip \/ ClaimingDone

SpecClaim == InitClaim /\ [][NextClaim]_vars

\* The cashlinks among the first n that have a balance, in map order
WithBalance(balances, n) ==
    SelectSeq([c \in 1..n |-> c], LAMBDA c : balances[c] > 0)

\* C24: the transactions sent are, in map order, exactly one per cashlink
\* processed so far that has a balance: from the cashlink's address, signed
\* with its key, to the recipient, for the whole balance and without fee; a
\* cashlink without balance gets none and raises no error.
C24_OneClaimPerFundedCashlink ==
    LET finished == IF handler.pc = "queried" THEN handler.processed - 1
                    ELSE handler.processed
        claimed == WithBalance(handler.balances, finished)
    IN  /\ Len(handler.sent) = Len(claimed)
        /\ \A i \in 1..Len(claimed) :
               /\ handler.sent[i].sender = AddressOf(claimed[i])
               /\ handler.sent[i].signedWith = KeyPairDerive(PrivateKeyBytes(claimed[i]))
               /\ handler.sent[i].recipient = handler.recipient
               /\ handler.sent[i].value = handler.balances[claimed[i]]
               /\ handler.sent[i].fee = 0
        /\ handler.pc \in {"loop", "queried", "claimed"}

\* C24 witness: claimCashlinks has returned after skipping a cashlink without
\* balance and claiming one with balance.
C24_Witness ==
    /\ handler.pc = "claimed"
    /\ handler.balances[1] = 0
    /\ handler.balances[2] > 0
    /\ Len(handler.sent) >= 1
    /\ handler.sent[1].sender = AddressOf(2)

\* ---------------------------------------------------------------------
\* main: a batch is imported or created, the chosen operations run in the
\* order of the statements of main, and an exception ends the run.

\* Largest number of cashlinks of the batch main works on
MaxBatch == 2

\* enum Operation
Operations == {"create-images", "change-message", "change-theme", "fund", "claim", "statistics"}

\* What the user may type at the operation prompt
OperationAnswers == Operations \cup {"unsupported"}

\* No file has been written
NoFile == [none |-> TRUE]

\* An order of the statements that funds before it exports.
StepsFundFirst ==
    << "import", "images", "message", "theme", "fund", "export", "claim", "statistics", "finished" >>

\* The statements of main, in their order
StepsOfMain ==
    << "import", "images", "message", "theme", "export", "fund", "claim", "statistics", "finished" >>

\* The statement main is at
StepOf(w) == IF w.thrown THEN "thrown" ELSE StepsOfMain[w.step]

\* Control moves to the next statement
Advance(w) == [w EXCEPT !.step = w.step + 1]

\* An exception leaves main
Throw(w) == [w EXCEPT !.thrown = TRUE]

InitMain ==
    /\ BroadcasterUnused
    /\ SlotCheckIdle /\ CodecIdle /\ CsvFileIdle /\ CreationIdle
    /\ StatisticsIdle /\ HandlerIdle
    /\ workflow = [step |-> 1, thrown |-> FALSE, created |-> FALSE, cashlinks |-> {},
                   oldImageFiles |-> FALSE, operations |-> {}, shouldExport |-> FALSE,
                   file |-> NoFile, fundingReached |-> FALSE, funded |-> {},
                   claimed |-> {}]

\* wizardImportCashlinks found a file: the batch, and maybe its image files,
\* are taken from it and the user names one operation
ImportBatch(count, hasImages, answer) ==
    /\ StepOf(workflow) = "import"
    /\ workflow' =
           IF answer \notin Operations THEN Throw(workflow)
           ELSE [Advance(workflow) EXCEPT !.cashlinks = 1..count,
                                          !.oldImageFiles = hasImages,
                                          !.operations = {answer},
                                          !.shouldExport = FALSE]
    /\ UNCHANGED exceptWorkflow

\* wizardImportCashlinks found nothing: wizardCreateCashlinks creates a batch,
\* which gets its images and is funded
CreateBatch(count) ==
    /\ StepOf(workflow) = "import"
    /\ workflow' = [Advance(workflow) EXCEPT !.created = TRUE,
                                             !.cashlinks = 1..count,
                                             !.operations = {"create-images", "fund"},
                                             !.shouldExport = TRUE]
    /\ UNCHANGED exceptWorkflow

\* wizardCreateImages, if chosen: it may throw, and the batch is exported if
\* there were no images before or their file names changed
CreateImages(ok, renamed) ==
    /\ StepOf(workflow) = "images"
    /\ workflow' =
           IF "create-images" \notin workflow.operations THEN Advance(workflow)
           ELSE IF ~ok THEN Throw(workflow)
           ELSE [Advance(workflow) EXCEPT
                    !.shouldExport = workflow.shouldExport \/ ~workflow.oldImageFiles \/ renamed,
                    !.oldImageFiles = TRUE]
    /\ UNCHANGED exceptWorkflow

\* wizardChangeMessage, if chosen
ChangeMessage(changed) ==
    /\ StepOf(workflow) = "message"
    /\ workflow' =
           IF "change-message" \notin workflow.operations THEN Advance(workflow)
           ELSE [Advance(workflow) EXCEPT !.shouldExport = workflow.shouldExport \/ changed]
    /\ UNCHANGED exceptWorkflow

\* wizardChangeTheme, if chosen
ChangeTheme(changed) ==
    /\ StepOf(workflow) = "theme"
    /\ workflow' =
           IF "change-theme" \notin workflow.operations THEN Advance(workflow)
           ELSE [Advance(workflow) EXCEPT !.shouldExport = workflow.shouldExport \/ changed]
    /\ UNCHANGED exceptWorkflow

\* exportCashlinks, if shouldExport: writeFileSync writes the batch or throws
ExportBatch(ok) ==
    /\ StepOf(workflow) = "export"
    /\ workflow' =
           IF ~workflow.shouldExport THEN Advance(workflow)
           ELSE IF ~ok THEN Throw(workflow)
           ELSE [Advance(workflow) EXCEPT !.file = [cashlinks |-> workflow.cashlinks]]
    /\ UNCHANGED exceptWorkflow

\* wizardFundCashlinks, if chosen: it throws for want of balance, returns when
\* the user declines, or funds every cashlink of the batch
FundBatch(outcome) ==
    /\ StepOf(workflow) = "fund"
    /\ workflow' =
           IF "fund" \notin workflow.operations THEN Advance(workflow)
           ELSE IF outcome = "failed" THEN [Throw(workflow) EXCEPT !.fundingReached = TRUE]
           ELSE IF outcome = "declined" THEN [Advance(workflow) EXCEPT !.fundingReached = TRUE]
           ELSE [Advance(workflow) EXCEPT !.fundingReached = TRUE,
                                          !.funded = workflow.cashlinks]
    /\ UNCHANGED exceptWorkflow

\* wizardClaimCashlinks, if chosen
ClaimBatch(ok) ==
    /\ StepOf(workflow) = "claim"
    /\ workflow' =
           IF "claim" \notin workflow.operations THEN Advance(workflow)
           ELSE IF ~ok THEN Throw(workflow)
           ELSE [Advance(workflow) EXCEPT !.claimed = workflow.cashlinks]
    /\ UNCHANGED exceptWorkflow

\* wizardCreateStatistics, if chosen
StatisticsOfBatch ==
    /\ StepOf(workflow) = "statistics"
    /\ workflow' = Advance(workflow)
    /\ UNCHANGED exceptWorkflow

NextMain ==
    \/ \E count \in 1..MaxBatch, hasImages \in BOOLEAN, answer \in OperationAnswers :
           ImportBatch(count, hasImages, answer)
    \/ \E count \in 1..MaxBatch : CreateBatch(count)
    \/ \E ok \in BOOLEAN, renamed \in BOOLEAN : CreateImages(ok, renamed)
    \/ \E changed \in BOOLEAN : ChangeMessage(changed)
    \/ \E changed \in BOOLEAN : ChangeTheme(changed)
    \/ \E ok \in BOOLEAN : ExportBatch(ok)
    \/ \E outcome \in {"failed", "declined", "funded"} : FundBatch(outcome)
    \/ \E ok \in BOOLEAN : ClaimBatch(ok)
    \/ StatisticsOfBatch

SpecMain == InitMain /\ [][NextMain]_vars

\* C25: for a newly created batch the funding step is reached, and funding
\* transactions are sent, only with the batch written to the file; a run whose
\* export failed has funded nothing and never reaches the funding step.
C25_ExportedBeforeFunding ==
    workflow.created =>
        /\ workflow.fundingReached =>
               /\ workflow.file # NoFile
               /\ workflow.cashlinks \subseteq workflow.file.cashlinks
        /\ workflow.funded # {} => workflow.fundingReached
        /\ (workflow.thrown /\ workflow.file = NoFile) => workflow.funded = {}

\* C25 witness: a created batch was exported and then funded.
C25_Witness ==
    /\ workflow.created
    /\ ~workflow.thrown
    /\ workflow.file # NoFile
    /\ workflow.funded = workflow.cashlinks
    /\ workflow.funded # {}

\* ---------------------------------------------------------------------
\* The broadcaster, again: the mined check, the initialization and the maps.

\* C26: a tracked transaction is removed only if it has left the node's
\* mempool; one that the node still holds is never removed, whenever it was
\* recorded as tracked.
C26_RemovedOnlyIfMined ==
    [][\A h \in DOMAIN senderPerMempoolTransaction :
           h \notin DOMAIN senderPerMempoolTransaction' => h \notin nodeMempool]_vars

\* The transactions of sender s that were in the mempool at the initialization
\* and are still tracked
TrackedFromPriorRuns(s) == Tracked(s) \cap OldTx

\* C27: before the initialization has completed nothing is queued on a wait
\* list, nothing has passed a gate and nothing is dispatched; and a
\* transaction passes the mempool gate only with fewer transactions of prior
\* runs still tracked for its sender than its limit: while as many as the
\* limit are tracked, none of which was seen as mined, none is admitted.
C27_AdmissionCountsPriorRuns ==
    /\ [](initialized # "resolved" =>
             /\ broadcastSlotWaitList = << >>
             /\ DOMAIN mempoolSlotWaitListPerSender = {}
             /\ broadcastPromises = {}
             /\ \A t \in Tx : /\ bs[t] \in {"none", "init", "rejected"}
                              /\ ms[t] \in {"none", "init", "rejected"}
                              /\ snd[t] = "none")
    /\ [][\A t \in Tx : PassesMempoolGate(t) =>
              /\ initialized = "resolved"
              /\ Cardinality(TrackedFromPriorRuns(SenderOf(t))) < MaxMempoolSlots(t)]_vars

\* C27 witness: a free transaction waits for a mempool slot because its
\* sender's transactions of prior runs fill the limit.
C27_Witness ==
    /\ initialized = "resolved"
    /\ \E t \in Tx : /\ ms[t] = "mining"
                     /\ Cardinality(TrackedFromPriorRuns(SenderOf(t))) = MaxMempoolSlots(t)
                     /\ \A u \in Tx : SenderOf(u) = SenderOf(t) => snd[u] = "none"

\* C30: the per-sender tracked sets and the reverse index agree: a hash is in
\* a sender's set iff the reverse index maps it to that sender, no empty
\* tracked set and no empty wait list is kept in the maps, and
\* _getMempoolTransactionCount gives the number of reverse index entries of
\* the sender.
C30_MapsAgree ==
    /\ \A s \in Senders, h \in AllTx :
           (s \in DOMAIN mempoolTransactionsPerSender /\ h \in mempoolTransactionsPerSender[s])
               <=> (h \in DOMAIN senderPerMempoolTransaction /\ senderPerMempoolTransaction[h] = s)
    /\ DOMAIN mempoolTransactionsPerSender \subseteq Senders
    /\ \A s \in DOMAIN mempoolTransactionsPerSender : mempoolTransactionsPerSender[s] # {}
    /\ \A s \in DOMAIN mempoolSlotWaitListPerSender : mempoolSlotWaitListPerSender[s] # << >>
    /\ \A s \in Senders :
           GetMempoolTransactionCount(mempoolTransactionsPerSender, s) = Cardinality(Tracked(s))

\* C30 witness: after the seeding, a transaction that was broadcast with
\* success has been removed by a mined check and another one of its sender is
\* tracked.
C30_Witness ==
    /\ initialized = "resolved"
    /\ \E t \in Tx : snd[t] = "done" /\ t \notin DOMAIN senderPerMempoolTransaction
    /\ \E u \in Tx : snd[u] = "done" /\ u \in DOMAIN senderPerMempoolTransaction

\* ---------------------------------------------------------------------
\* fundCashlinks on a chain that keeps advancing.  The poll compares the
\* block height with the last one it saw and nothing else, so the heights are
\* kept relative to that one: lastBlockHeight stays 0 and nodeHeight is 1 as
\* soon as the chain has advanced since.

\* The node mines a block (or several) with some of its mempool's transactions.
NodeMineOn(mined) ==
    /\ nodeHeight' = 1
    /\ nodeMempool' = nodeMempool \ mined
    /\ UNCHANGED toolVars
    /\ UNCHANGED << history, feeTier, initialized, broadcastSlotWaitList, clientMaps,
                    transactionMiningPromise, lastBlockHeight, broadcastPromises,
                    call, bs, raceSet, ms, snd, attempts, failures, pollLoops, pending >>

\* The blockNumber call of loop i returns: with an unchanged height the loop
\* checks again after the timer, with a new one it is remembered, which makes
\* it the height the node's is relative to, and the mempool content is
\* requested.
PollBlockHeightOn(i) ==
    /\ i \in 1..Len(pollLoops)
    /\ pollLoops[i].pc = "height"
    /\ LET blockHeight == nodeHeight
       IN  IF blockHeight # lastBlockHeight
           THEN /\ nodeHeight' = 0
                /\ pollLoops' = [pollLoops EXCEPT ![i] = [pc |-> "mempool", snap |-> {}]]
           ELSE UNCHANGED << nodeHeight, pollLoops >>
    /\ UNCHANGED toolVars
    /\ UNCHANGED << feeTier, initialized, broadcastSlotWaitList, clientMaps,
                    transactionMiningPromise, lastBlockHeight, broadcastPromises,
                    call, bs, raceSet, ms, snd, attempts, failures, pending,
                    history, nodeMempool >>

\* The continuations of fundCashlinks and of the broadcaster: each runs once
\* the promise it awaits has settled
Continuations ==
    \/ \E t \in Tx : SeqCall(t)
    \/ \E t \in Tx : BroadcastSlotEnter(t)
    \/ \E t \in Tx : BroadcastSlotWake(t)
    \/ \E t \in Tx : MempoolSlotEnter(t)
    \/ \E t \in Tx : MempoolSlotWake(t)
    \/ \E t \in Tx : AwaitTransactionMining(t)
    \/ \E t \in Tx : Dispatch(t)
    \/ AwaitPendingBroadcasts
    \/ PendingBroadcastsResolve

\* The node handles the mempool content request of a poll
ContentServed == \E i \in 1..Len(pollLoops) : Quiescent /\ NodeMempoolContent(i)

\* The node handles a sendTransaction call
SendServed == \E t \in Tx : Quiescent /\ NodeAccept(t)

\* The block height reaches a poll
HeightReceived == \E i \in 1..Len(pollLoops) : Quiescent /\ PollBlockHeightOn(i)

\* The mempool content reaches a poll
ContentReceived == \E i \in 1..Len(pollLoops) : Quiescent /\ PollMempoolContent(i)

\* The retry timer of a failed sendTransaction call fires
RetryTimer == \E t \in Tx : Quiescent /\ SendRetry(t)

\* The response to a sendTransaction call reaches the broadcaster
SuccessReceived == \E t \in Tx : Quiescent /\ SendSuccess(t)

\* The steps of fundCashlinks, of the broadcaster and of the node that do not
\* fail
Progress ==
    \/ Continuations
    \/ Quiescent /\ InitResolve
    \/ ContentServed
    \/ SendServed
    \/ HeightReceived
    \/ ContentReceived
    \/ RetryTimer
    \/ SuccessReceived

\* The node mines every transaction of its mempool
MineAll == Quiescent /\ NodeMineOn(nodeMempool)

\* A call of the node fails: a sendTransaction call, or a call of the poll
Failure ==
    \/ \E t \in Tx : Quiescent /\ TotalFailures < MaxFail /\ SendFail(t)
    \/ \E i \in 1..Len(pollLoops) : Quiescent /\ PollRpcFail(i)

NextFunding ==
    \/ Progress
    \/ \E mined \in SUBSET nodeMempool : Quiescent /\ NodeMineOn(mined)
    \/ Failure

\* Every continuation, response and timer that can run does run in the end,
\* the chain keeps advancing and mining, and only finitely many calls of the
\* node fail.
SpecFunding ==
    /\ Init
    /\ [][NextFunding]_vars
    /\ WF_vars(Continuations)
    /\ WF_vars(Quiescent /\ InitResolve)
    /\ WF_vars(ContentServed)
    /\ WF_vars(SendServed)
    /\ WF_vars(HeightReceived)
    /\ WF_vars(ContentReceived)
    /\ WF_vars(RetryTimer)
    /\ WF_vars(SuccessReceived)
    /\ WF_vars(MineAll)

\* C28: fundCashlinks terminates, and when it returns every transaction of the
\* batch has been accepted by the node.
C28_FundCashlinksTerminates ==
    /\ <>(pending.pc = "resolved")
    /\ [](pending.pc = "resolved" => \A t \in Tx : snd[t] = "done" /\ attempts[t] >= 1)

\* ---------------------------------------------------------------------
\* C29: no two cashlinks of a batch share a key pair: distinct tokens of a
\* batch have distinct private keys, whatever the token length.
C29_DistinctTokensDistinctKeys ==
    \A r \in Runs :
        \A token, other \in DOMAIN creation[r].cashlinks :
            token # other =>
                creation[r].cashlinks[token].keyPair # creation[r].cashlinks[other].keyPair

====
